---- MODULE Spec2Model ----
(***************************************************************************)
(* Model of the maintenance executor of ai_memory_protocol: the RST store  *)
(* primitives (rst.py), action validation and execute_plan (executor.py),  *)
(* with the git stash/commit envelope the executor wraps around a batch.   *)
(*                                                                         *)
(* Representation.  An RST file is the list of its lines, as               *)
(* content.split("\n") yields them.  A line is a record [k, name, val]:    *)
(*   k = "dir"   ".. <name>:: <val>"        (val: the title, a char list)  *)
(*   k = "id"    "   :id: <val>"            (val: the id, a token list)    *)
(*   k = "fld"   "   :<name>: <val>"        (val: comma separated items)   *)
(*   k = "blank" ""                                                        *)
(*   k = "text"  a header or body line holding no field marker             *)
(* An id is a list of tokens (the type prefix, "_", then the characters of *)
(* the slug), so that the substring test  f":id: {need_id}" in line  of    *)
(* rst.py becomes "need_id is a prefix of the id on that line".            *)
(***************************************************************************)
EXTENDS Integers, Sequences, FiniteSets, TLC

\* ------------------------------------------------------------------ bounds
MaxBatch == 2
MaxCalls == 2
MaxValBatch == 3
MaxNeeds == 3

\* ------------------------------------------------------------ config.py
Types == {"mem", "dec"}
TypeOrder == <<"mem", "dec">>
TYPE_PREFIXES == [t \in Types |-> IF t = "mem" THEN "MEM" ELSE "DEC"]
DEFAULT_STATUS == [t \in Types |-> IF t = "mem" THEN "draft" ELSE "active"]

\* --------------------------------------------------------------- helpers
Min(a, b) == IF a < b THEN a ELSE b
Max(a, b) == IF a > b THEN a ELSE b

IsPrefix(p, s) == Len(p) <= Len(s) /\ \A i \in 1..Len(p) : p[i] = s[i]

Contains(s, x) == \E i \in 1..Len(s) : s[i] = x

RECURSIVE Dedup(_)
Dedup(s) ==
  IF s = <<>> THEN <<>>
  ELSE LET r == Dedup(SubSeq(s, 1, Len(s) - 1))
           x == s[Len(s)]
       IN IF Contains(r, x) THEN r ELSE Append(r, x)

Without(s, rem) == SelectSeq(s, LAMBDA t : ~Contains(rem, t))

InsertAt(s, i, x) == SubSeq(s, 1, i - 1) \o <<x>> \o SubSeq(s, i, Len(s))
RemoveAt(s, i) == SubSeq(s, 1, i - 1) \o SubSeq(s, i + 1, Len(s))

\* ----------------------------------------------------------------- lines
Blank == [k |-> "blank", name |-> "", val |-> <<>>]
Text == [k |-> "text", name |-> "", val |-> <<>>]
DirLine(t, title) == [k |-> "dir", name |-> t, val |-> title]
IdLine(id) == [k |-> "id", name |-> "id", val |-> id]
FieldLine(n, v) == [k |-> "fld", name |-> n, val |-> v]

\* re.match(r"\s+:\w", line): an indented option line
IsMetaLine(l) == l.k \in {"id", "fld"}
\* f":id: {need_id}" in line
IdMatches(l, need_id) == l.k = "id" /\ IsPrefix(need_id, l.val)
\* f":{field}:" in line
HasField(l, field) == l.k = "fld" /\ l.name = field

\* --------------------------------------------------------------- rst.py
MAX_SLUG == 50
WINDOW_BEFORE == 2
WINDOW_AFTER == 20

LowerChars == {"a", "b"}
Lower(c) == IF c = "A" THEN "a" ELSE IF c = "B" THEN "b" ELSE c

RECURSIVE StripLeft(_)
StripLeft(s) == IF s # <<>> /\ s[1] = " " THEN StripLeft(Tail(s)) ELSE s
RECURSIVE StripRight(_)
StripRight(s) ==
  IF s # <<>> /\ s[Len(s)] = " " THEN StripRight(SubSeq(s, 1, Len(s) - 1)) ELSE s
RECURSIVE Collapse(_)
Collapse(s) ==
  IF s = <<>> THEN <<>>
  ELSE IF s[1] = " "
       THEN <<"_">> \o Collapse(StripLeft(s))
       ELSE <<s[1]>> \o Collapse(Tail(s))

slugify(text) ==
  LET lower == [i \in 1..Len(text) |-> Lower(text[i])]
      kept == SelectSeq(lower, LAMBDA c : c \in LowerChars \cup {" "})
      slug == Collapse(StripRight(StripLeft(kept)))
  IN SubSeq(slug, 1, Min(MAX_SLUG, Len(slug)))

generate_id(mem_type, title) ==
  <<IF mem_type \in Types THEN TYPE_PREFIXES[mem_type] ELSE "MEM", "_">>
    \o slugify(title)

generate_rst_directive(mem_type, title, need_id, tags, supersedes) ==
  LET nid == IF need_id # <<>> THEN need_id ELSE generate_id(mem_type, title)
      status == IF mem_type \in Types THEN DEFAULT_STATUS[mem_type] ELSE "draft"
  IN <<DirLine(mem_type, title), IdLine(nid), FieldLine("status", <<status>>)>>
     \o (IF tags # <<>> THEN <<FieldLine("tags", tags)>> ELSE <<>>)
     \o <<FieldLine("confidence", <<"medium">>), FieldLine("scope", <<"global">>),
          FieldLine("created_at", <<"today">>),
          FieldLine("review_after", <<"today+30">>)>>
     \o (IF supersedes # <<>> THEN <<FieldLine("supersedes", supersedes)>> ELSE <<>>)
     \o <<Blank, Text, Blank>>

\* the header a fresh file gets: "====\nTitle\n====\n\n"
FileHeader == <<Text, Text, Text, Blank, Blank>>

RECURSIVE RStripBlank(_)
RStripBlank(ls) ==
  IF ls # <<>> /\ ls[Len(ls)].k = "blank"
  THEN RStripBlank(SubSeq(ls, 1, Len(ls) - 1)) ELSE ls

\* existing + content, after existing is made to end with "\n\n"
AppendLines(existing, content) ==
  IF Len(existing) >= 2 /\ existing[Len(existing)].k = "blank"
     /\ existing[Len(existing) - 1].k = "blank"
  THEN SubSeq(existing, 1, Len(existing) - 1) \o content
  ELSE RStripBlank(existing) \o <<Blank>> \o content

\* Raises KeyError(mem_type), whose message is the key, when mem_type is no
\* key of TYPE_FILES.
append_to_rst(store, mem_type, content) ==
  IF mem_type \notin Types
  THEN [exc |-> TRUE, err |-> mem_type, store |-> store]
  ELSE [exc |-> FALSE, err |-> "",
        store |-> [store EXCEPT ![mem_type] = AppendLines(@, content)]]

\* index of the first line of ls carrying :id: need_id, 0 when there is none
FindIdLine(ls, need_id) ==
  IF \E i \in 1..Len(ls) : IdMatches(ls[i], need_id)
  THEN CHOOSE i \in 1..Len(ls) :
         /\ IdMatches(ls[i], need_id)
         /\ \A j \in 1..(i - 1) : ~IdMatches(ls[j], need_id)
  ELSE 0

\* the first file, in TYPE_FILES order, whose content holds :id: need_id ("" if none)
FindFile(store, need_id) ==
  IF \E n \in 1..Len(TypeOrder) : FindIdLine(store[TypeOrder[n]], need_id) # 0
  THEN TypeOrder[CHOOSE n \in 1..Len(TypeOrder) :
         /\ FindIdLine(store[TypeOrder[n]], need_id) # 0
         /\ \A m \in 1..(n - 1) : FindIdLine(store[TypeOrder[m]], need_id) = 0]
  ELSE ""

\* range(max(0, i - 2), min(len(lines), i + 20)), in 1-based indices
Window(ls, idx) == Max(1, idx - WINDOW_BEFORE)..Min(Len(ls), idx + WINDOW_AFTER - 1)

\* first line of the window around idx that carries :field:, 0 when none
FindFieldLine(ls, idx, field) ==
  IF \E j \in Window(ls, idx) : HasField(ls[j], field)
  THEN CHOOSE j \in Window(ls, idx) :
         /\ HasField(ls[j], field)
         /\ \A m \in Window(ls, idx) : m < j => ~HasField(ls[m], field)
  ELSE 0

\* the index after the run of option lines that follows the :id: line
RECURSIVE InsertIdx(_, _)
InsertIdx(ls, i) ==
  IF i <= Len(ls) /\ IsMetaLine(ls[i]) THEN InsertIdx(ls, i + 1) ELSE i

update_field_in_rst(store, need_id, field, new_value) ==
  LET f == FindFile(store, need_id) IN
  IF f = "" THEN [ok |-> FALSE, msg |-> "not found", store |-> store]
  ELSE LET ls == store[f]
           idx == FindIdLine(ls, need_id)
           j == FindFieldLine(ls, idx, field)
       IN IF j # 0
          THEN [ok |-> TRUE, msg |-> "Updated",
                store |-> [store EXCEPT ![f] =
                             [ls EXCEPT ![j] = FieldLine(field, <<new_value>>)]]]
          ELSE [ok |-> TRUE, msg |-> "Added",
                store |-> [store EXCEPT ![f] =
                             InsertAt(ls, InsertIdx(ls, idx + 1),
                                      FieldLine(field, <<new_value>>))]]

deprecate_in_rst(store, need_id, superseded_by) ==
  update_field_in_rst(store, need_id, "status", "deprecated")

add_tags_in_rst(store, need_id, new_tags) ==
  LET f == FindFile(store, need_id) IN
  IF f = "" THEN [ok |-> FALSE, msg |-> "not found", store |-> store]
  ELSE LET ls == store[f]
           idx == FindIdLine(ls, need_id)
           j == FindFieldLine(ls, idx, "tags")
       IN IF j # 0
          THEN [ok |-> TRUE, msg |-> "Tags updated",
                store |-> [store EXCEPT ![f] =
                   [ls EXCEPT ![j] = FieldLine("tags", Dedup(ls[j].val \o new_tags))]]]
          ELSE [ok |-> TRUE, msg |-> "Added tags",
                store |-> [store EXCEPT ![f] =
                   InsertAt(ls, InsertIdx(ls, idx + 1), FieldLine("tags", new_tags))]]

remove_tags_in_rst(store, need_id, tags_to_remove) ==
  LET f == FindFile(store, need_id) IN
  IF f = "" THEN [ok |-> FALSE, msg |-> "not found", store |-> store]
  ELSE LET ls == store[f]
           idx == FindIdLine(ls, need_id)
           j == FindFieldLine(ls, idx, "tags")
       IN IF j = 0
          THEN [ok |-> FALSE, msg |-> "No :tags: field", store |-> store]
          ELSE LET remaining == Without(ls[j].val, tags_to_remove)
               IN [ok |-> TRUE, msg |-> "Removed tags",
                   store |-> [store EXCEPT ![f] =
                      IF remaining # <<>>
                      THEN [ls EXCEPT ![j] = FieldLine("tags", remaining)]
                      ELSE RemoveAt(ls, j)]]

\* ------------------------------------------------------------ planner.py
StringKeys == {"kind", "reason", "new_type", "new_body", "rst_path"}
SeqKeys == {"id", "add_tags", "remove_tags", "field_changes", "old_id",
            "new_title", "new_tags", "new_links", "by_id"}

\* Action(kind, reason) with every other field at its dataclass default
Action(kind) ==
  [kind |-> kind, reason |-> "r", id |-> <<>>, add_tags |-> <<>>,
   remove_tags |-> <<>>, field_changes |-> <<>>, old_id |-> <<>>,
   new_type |-> "", new_title |-> <<>>, new_body |-> "", new_tags |-> <<>>,
   new_links |-> <<>>, by_id |-> <<>>, rst_path |-> ""]

Truthy(a, key) == IF key \in StringKeys THEN a[key] # "" ELSE a[key] # <<>>

\* Action.to_dict: the fields of a, empty ones omitted
to_dict(a) == [key \in {x \in DOMAIN a : Truthy(a, x)} |-> a[key]]

\* ----------------------------------------------------------- executor.py
Kinds == {"RETAG", "SUPERSEDE", "DEPRECATE", "UPDATE", "PRUNE", "SPLIT_FILE"}

InMap(a) == a.kind = "SUPERSEDE" /\ a.old_id # <<>> /\ a.by_id # <<>>

\* supersede_map[old_id] = by_id, a later action overwriting an earlier one
SupersedeMap(actions) ==
  LET olds == {actions[n].old_id : n \in {m \in 1..Len(actions) : InMap(actions[m])}}
      last(o) == CHOOSE n \in 1..Len(actions) :
                   /\ InMap(actions[n]) /\ actions[n].old_id = o
                   /\ \A m \in (n + 1)..Len(actions) :
                        ~(InMap(actions[m]) /\ actions[m].old_id = o)
  IN [o \in olds |-> actions[last(o)].by_id]

\* the while loop of the cycle check: TRUE when the walk revisits a node
RECURSIVE Walk(_, _, _)
Walk(map, current, visited) ==
  IF current \notin DOMAIN map THEN FALSE
  ELSE IF current \in visited THEN TRUE
  ELSE Walk(map, map[current], visited \cup {current})

\* SkipReason without the DEPRECATE check
SkipReasonNoDeprecate(a, map) ==
  IF a.kind = "RETAG" /\ a.id = <<>> THEN "RETAG requires 'id'"
  ELSE IF a.kind = "SUPERSEDE" /\ a.old_id = <<>> THEN "SUPERSEDE requires 'old_id'"
  ELSE IF a.kind = "UPDATE" /\ a.id = <<>> THEN "UPDATE requires 'id'"
  ELSE IF a.kind = "SPLIT_FILE" /\ a.rst_path = "" THEN "SPLIT_FILE requires 'rst_path'"
  ELSE IF a.kind = "SUPERSEDE" /\ a.old_id # <<>> /\ Walk(map, a.old_id, {})
       THEN "Circular supersede chain"
  ELSE ""

\* the reason validate_actions skips a for, "" when it accepts a
SkipReason(a, map) ==
  IF a.kind = "RETAG" /\ a.id = <<>> THEN "RETAG requires 'id'"
  ELSE IF a.kind = "SUPERSEDE" /\ a.old_id = <<>> THEN "SUPERSEDE requires 'old_id'"
  ELSE IF a.kind = "DEPRECATE" /\ a.id = <<>> THEN "DEPRECATE requires 'id'"
  ELSE IF a.kind = "UPDATE" /\ a.id = <<>> THEN "UPDATE requires 'id'"
  ELSE IF a.kind = "SPLIT_FILE" /\ a.rst_path = "" THEN "SPLIT_FILE requires 'rst_path'"
  ELSE IF a.kind = "SUPERSEDE" /\ a.old_id # <<>> /\ Walk(map, a.old_id, {})
       THEN "Circular supersede chain"
  ELSE ""

\* ValidateLoop with valid.insert(0, a) for valid.append(a)
RECURSIVE ValidateLoopPrepend(_, _, _)
ValidateLoopPrepend(actions, map, n) ==
  IF n = 0 THEN [valid |-> <<>>, skipped |-> <<>>]
  ELSE LET r == ValidateLoopPrepend(actions, map, n - 1)
           why == SkipReason(actions[n], map)
       IN IF why # ""
          THEN [r EXCEPT !.skipped = Append(@, [pos |-> n,
                                                 action |-> to_dict(actions[n]),
                                                 reason |-> why])]
          ELSE [r EXCEPT !.valid = <<n>> \o @]

\* valid holds the accepted actions by their position in the input list
RECURSIVE ValidateLoop(_, _, _)
ValidateLoop(actions, map, n) ==
  IF n = 0 THEN [valid |-> <<>>, skipped |-> <<>>]
  ELSE LET r == ValidateLoop(actions, map, n - 1)
           why == SkipReason(actions[n], map)
       IN IF why # ""
          THEN [r EXCEPT !.skipped = Append(@, [pos |-> n,
                                                 action |-> to_dict(actions[n]),
                                                 reason |-> why])]
          ELSE [r EXCEPT !.valid = Append(@, n)]

validate_actions(actions) == ValidateLoop(actions, SupersedeMap(actions), Len(actions))

\* An executor returns [ok, exc, msg, store]: exc is TRUE when it raised, and
\* store is the store as it left it.
Done(ok, msg, store) == [ok |-> ok, exc |-> FALSE, msg |-> msg, store |-> store]
Raised(err, store) == [ok |-> FALSE, exc |-> TRUE, msg |-> <<err>>, store |-> store]

execute_retag(store, a) ==
  LET r1 == IF a.remove_tags # <<>>
            THEN remove_tags_in_rst(store, a.id, a.remove_tags)
            ELSE [ok |-> TRUE, msg |-> "", store |-> store]
      r2 == IF a.add_tags # <<>>
            THEN add_tags_in_rst(r1.store, a.id, a.add_tags)
            ELSE [ok |-> TRUE, msg |-> "", store |-> r1.store]
  IN Done(r1.ok /\ r2.ok,
          (IF a.remove_tags # <<>> THEN <<r1.msg>> ELSE <<>>)
            \o (IF a.add_tags # <<>> THEN <<r2.msg>> ELSE <<>>),
          r2.store)

execute_supersede(store, a) ==
  LET d == deprecate_in_rst(store, a.old_id, a.by_id) IN
  IF ~d.ok THEN Done(FALSE, <<"Failed to deprecate", d.msg>>, store)
  ELSE IF a.new_type # "" /\ a.new_title # <<>>
       THEN LET directive == generate_rst_directive(a.new_type, a.new_title, <<>>,
                                                    a.new_tags, <<a.old_id>>)
                ap == append_to_rst(d.store, a.new_type, directive)
            IN IF ap.exc THEN Raised(ap.err, ap.store)
               ELSE Done(TRUE, <<d.msg, "Created replacement">>, ap.store)
       ELSE Done(TRUE, <<d.msg>>, d.store)

execute_deprecate(store, a) ==
  LET d == deprecate_in_rst(store, a.id, a.by_id) IN Done(d.ok, <<d.msg>>, d.store)

RECURSIVE UpdateLoop(_, _, _)
UpdateLoop(store, a, n) ==
  IF n = 0 THEN [ok |-> TRUE, msg |-> <<>>, store |-> store]
  ELSE LET r == UpdateLoop(store, a, n - 1)
           u == update_field_in_rst(r.store, a.id, a.field_changes[n][1],
                                    a.field_changes[n][2])
       IN [ok |-> r.ok /\ u.ok, msg |-> Append(r.msg, u.msg), store |-> u.store]

\* execute_update with the id looked up before the field changes are read
execute_updateChecksId(store, a) ==
  IF FindFile(store, a.id) = "" THEN Done(FALSE, <<"not found">>, store)
  ELSE IF a.field_changes = <<>> THEN Done(TRUE, <<"No field changes">>, store)
  ELSE LET r == UpdateLoop(store, a, Len(a.field_changes))
       IN Done(r.ok, r.msg, r.store)

execute_update(store, a) ==
  IF a.field_changes = <<>> THEN Done(TRUE, <<"No field changes">>, store)
  ELSE LET r == UpdateLoop(store, a, Len(a.field_changes))
       IN Done(r.ok, r.msg, r.store)

execute_prune(store, a) ==
  LET d == deprecate_in_rst(store, a.id, <<>>) IN Done(d.ok, <<d.msg>>, d.store)

execute_split_file(store, a) == Done(TRUE, <<"File splitting noted">>, store)

\* TRUE when the executor of a starts with a read of the store's files
ReadsStore(a) ==
  \/ a.kind \in {"SUPERSEDE", "DEPRECATE", "PRUNE"}
  \/ a.kind = "RETAG" /\ (a.remove_tags # <<>> \/ a.add_tags # <<>>)
  \/ a.kind = "UPDATE" /\ a.field_changes # <<>>

\* _EXECUTORS[a.kind](workspace, a); oserror: the first file access raises OSError
Executor(store, a, oserror) ==
  IF oserror /\ ReadsStore(a) THEN Raised("OSError", store)
  ELSE CASE a.kind = "RETAG" -> execute_retag(store, a)
         [] a.kind = "SUPERSEDE" -> execute_supersede(store, a)
         [] a.kind = "DEPRECATE" -> execute_deprecate(store, a)
         [] a.kind = "UPDATE" -> execute_update(store, a)
         [] a.kind = "PRUNE" -> execute_prune(store, a)
         [] a.kind = "SPLIT_FILE" -> execute_split_file(store, a)

\* ------------------------------------------------------------------- git
\* git stash push: nothing is stashed when git fails or the tree is clean;
\* otherwise the tracked changes go on the stash stack and the working tree
\* is reset to HEAD.
git_stash_push(hd, tree, stack, git_ok) ==
  IF ~git_ok \/ tree = hd
  THEN [created |-> FALSE, tree |-> tree, stack |-> stack]
  ELSE [created |-> TRUE, tree |-> hd, stack |-> <<tree>> \o stack]

\* git stash pop: refused (the entry is kept) when a file the entry changes
\* is modified in the working tree; otherwise the entry's files are restored.
git_stash_pop(hd, tree, stack) ==
  IF stack = <<>> THEN [ok |-> FALSE, tree |-> tree, stack |-> stack]
  ELSE LET top == Head(stack)
           stashedFiles == {t \in Types : top[t] # hd[t]}
           dirty == {t \in Types : tree[t] # hd[t]}
       IN IF stashedFiles \cap dirty # {}
          THEN [ok |-> FALSE, tree |-> tree, stack |-> stack]
          ELSE [ok |-> TRUE,
                tree |-> [t \in Types |-> IF t \in stashedFiles THEN top[t] ELSE tree[t]],
                stack |-> Tail(stack)]

git_stash_drop(stack) == IF stack = <<>> THEN stack ELSE Tail(stack)

\* git add memory/ *.rst; git commit: HEAD takes the working tree's files,
\* unless git fails
git_commit(hd, tree, git_ok) == IF git_ok THEN tree ELSE hd

\* ----------------------------------------------------------------- state
VARIABLES
  head,         \* the files as of the last commit
  wt,           \* the files of the working tree: the store
  stash,        \* git's stash stack, newest entry first
  pc,           \* "idle", "loop" (in execute_plan's for loop), "done" (returned),
                \* "raised" (left by an exception), "validated"
  calls,        \* execute_plan calls started so far
  actions,      \* the call's arguments
  auto_commit,
  rebuild,
  git_works,    \* whether git succeeds in the workspace during the call
  valid,        \* validate_actions' result
  skipped,
  stashed,      \* execute_plan's locals
  i,            \* index in valid of the next action to execute
  applied,
  failed,
  build_ok,
  result,       \* the ExecutionResult returned
  pre,          \* history: the store when the call started
  trace,        \* history: the collaborators invoked by the call, in order
  needs,        \* the planner's snapshot: needs.json's entities in file order
  today,        \* date.today() of the planner's runs
  plans,        \* history: the detector runs so far, [check, out]
  wire,         \* the serialized plan: Action.to_dict of each action
  restored      \* actions_from_json(wire)

planner_vars == <<needs, today, plans, wire, restored>>

vars == <<head, wt, stash, pc, calls, actions, auto_commit, rebuild, git_works, valid,
          skipped, stashed, i, applied, failed, build_ok, result, pre, trace,
          planner_vars>>

\* ---------------------------------------------------------------- inputs
MEM_a == <<"MEM", "_", "a">>
MEM_ab == <<"MEM", "_", "a", "b">>
MEM_z == <<"MEM", "_", "z">>
DEC_b == <<"DEC", "_", "b">>

\* the store the calls start from, written through the store's own primitives
Store0 ==
  LET s0 == [t \in Types |-> FileHeader]
      s1 == append_to_rst(s0, "mem",
              generate_rst_directive("mem", <<"A">>, MEM_a, <<"t0">>, <<>>)).store
      s2 == append_to_rst(s1, "mem",
              generate_rst_directive("mem", <<"a", "b">>, MEM_ab, <<>>, <<>>)).store
  IN append_to_rst(s2, "dec",
       generate_rst_directive("dec", <<"B">>, DEC_b, <<"t0">>, <<>>)).store

\* the working tree when a call starts: clean, or holding an uncommitted edit
WorkingTrees ==
  { Store0,
    update_field_in_rst(Store0, MEM_a, "scope", "local").store,
    update_field_in_rst(Store0, DEC_b, "scope", "local").store }

ActionPool ==
  { [Action("RETAG") EXCEPT !.id = MEM_a, !.add_tags = <<"t1">>],
    [Action("RETAG") EXCEPT !.add_tags = <<"t1">>],
    [Action("RETAG") EXCEPT !.id = MEM_z, !.remove_tags = <<"t0">>],
    [Action("SUPERSEDE") EXCEPT !.old_id = MEM_a, !.by_id = MEM_ab,
                                !.new_type = "mem", !.new_title = <<"A", "!">>],
    [Action("SUPERSEDE") EXCEPT !.old_id = DEC_b, !.new_type = "bogus",
                                !.new_title = <<"b">>],
    [Action("DEPRECATE") EXCEPT !.id = DEC_b],
    [Action("UPDATE") EXCEPT !.id = MEM_a,
                             !.field_changes = <<<<"status", "review">>>>],
    [Action("PRUNE") EXCEPT !.id = MEM_ab],
    Action("PRUNE"),
    [Action("SPLIT_FILE") EXCEPT !.rst_path = "p"],
    [Action("NONEXISTENT") EXCEPT !.id = MEM_a] }

RECURSIVE SeqsUpTo(_, _)
SeqsUpTo(S, n) ==
  IF n = 0 THEN {<<>>}
  ELSE LET shorter == SeqsUpTo(S, n - 1)
       IN shorter \cup {Append(q, x) : q \in shorter, x \in S}

Batches == SeqsUpTo(ActionPool, MaxBatch)

\* the plans of the call sequences: one action each
SinglePlans == {<<a>> : a \in ActionPool}

\* the batches given to validate_actions alone
NodeA == <<"A">>
NodeB == <<"B">>
NodeC == <<"C">>
ValidationPool ==
  {Action("SUPERSEDE")}
  \cup {[Action("SUPERSEDE") EXCEPT !.old_id = o, !.by_id = b] :
          o \in {NodeA, NodeB}, b \in {<<>>, NodeA, NodeB, NodeC}}
  \cup {[Action(k) EXCEPT !.id = x] :
          k \in {"RETAG", "DEPRECATE", "UPDATE"}, x \in {<<>>, NodeA}}
  \cup {[Action("SPLIT_FILE") EXCEPT !.rst_path = q] : q \in {"", "p"}}
  \cup {Action("PRUNE")}

ValidationBatches == SeqsUpTo(ValidationPool, MaxValBatch)

NoResult == [success |-> FALSE, applied |-> <<>>, failed |-> <<>>, skipped |-> <<>>,
             build_output |-> "", message |-> ""]

Locals0 ==
  /\ stash = <<>>
  /\ pc = "idle"
  /\ calls = 0
  /\ auto_commit = FALSE
  /\ rebuild = FALSE
  /\ git_works = TRUE
  /\ valid = <<>>
  /\ skipped = <<>>
  /\ stashed = FALSE
  /\ i = 1
  /\ applied = <<>>
  /\ failed = <<>>
  /\ build_ok = TRUE
  /\ result = NoResult
  /\ pre = wt
  /\ trace = <<>>

\* no snapshot loaded, no plan serialized
NoPlanner ==
  /\ needs = <<>>
  /\ today = <<>>
  /\ plans = <<>>
  /\ wire = <<>>
  /\ restored = <<>>

Init ==
  /\ head = Store0
  /\ wt \in WorkingTrees
  /\ actions = <<>>
  /\ Locals0
  /\ NoPlanner

\* ----------------------------------------------------------- execute_plan
Ev(what, n, e) == [ev |-> what, pos |-> n, exc |-> e]

\* NoValidActions with the early return never taken
NoValidActionsNever(valid_actions) == FALSE

\* if not valid_actions
NoValidActions(valid_actions) == valid_actions = <<>>

\* the entry appended to applied or failed for the action at input position n
AppliedEntry(n, a, r) == [pos |-> n, action |-> to_dict(a), message |-> r.msg]
FailedEntry(n, a, r) == [pos |-> n, action |-> to_dict(a), error |-> r.msg]

\* the try/except around executor(workspace, action)
AppliedAfter(al, n, a, r) ==
  IF ~r.exc /\ r.ok THEN Append(al, AppliedEntry(n, a, r)) ELSE al

\* FailedAfter with the except clause swallowing the exception
FailedAfterSwallow(fl, n, a, r) ==
  IF ~r.exc /\ ~r.ok THEN Append(fl, FailedEntry(n, a, r)) ELSE fl

FailedAfter(fl, n, a, r) ==
  IF r.exc \/ ~r.ok THEN Append(fl, FailedEntry(n, a, r)) ELSE fl

\* NextIndex with a break on the first action that does not succeed
NextIndexBreak(idx, r, n) == IF r.exc \/ ~r.ok THEN n + 1 ELSE idx + 1

\* the for loop goes on to the next valid action whatever the outcome
NextIndex(idx, r, n) == idx + 1

\* if rebuild and applied
RunsRebuild(rb, al) == rb /\ al # <<>>

\* PopsStash with the pop attempted whether or not a stash was created
PopsStashAlways(st) == TRUE

\* if stashed (in the build-failed branch)
PopsStash(st) == st

\* DropsStash with the stash never dropped
DropsStashNever(st) == FALSE

\* if stashed (after a build that did not fail)
DropsStash(st) == st

\* Commits with the applied list ignored
CommitsUnapplied(ac, al) == ac

\* if auto_commit and applied
Commits(ac, al) == ac /\ al # <<>>

\* AllSucceeded with the failed list ignored
AllSucceededAlways(fl) == TRUE

\* all_succeeded = not failed
AllSucceeded(fl) == fl = <<>>

\* execute_plan up to the for loop: validate, return early or push the stash
Call(batch, ac, rb, git_ok) ==
  /\ pc = "idle"
  /\ UNCHANGED planner_vars
  /\ calls' = calls + 1
  /\ actions' = batch
  /\ auto_commit' = ac
  /\ rebuild' = rb
  /\ git_works' = git_ok
  /\ pre' = wt
  /\ applied' = <<>>
  /\ failed' = <<>>
  /\ build_ok' = TRUE
  /\ i' = 1
  /\ LET v == validate_actions(batch) IN
     /\ valid' = v.valid
     /\ skipped' = v.skipped
     /\ IF NoValidActions(v.valid)
        THEN /\ result' = [NoResult EXCEPT !.success = TRUE, !.skipped = v.skipped,
                                           !.message = "No valid actions to execute."]
             /\ pc' = "done"
             /\ trace' = <<>>
             /\ stashed' = FALSE
             /\ UNCHANGED <<head, wt, stash>>
        ELSE LET p == git_stash_push(head, wt, stash, git_ok) IN
             /\ stashed' = p.created
             /\ wt' = p.tree
             /\ stash' = p.stack
             /\ trace' = <<Ev("stash_push", 0, "")>>
             /\ pc' = "loop"
             /\ result' = NoResult
             /\ UNCHANGED head

Unknown == [ok |-> FALSE, exc |-> FALSE, msg |-> <<"Unknown action kind">>]

\* one iteration of the for loop
ApplyAction(oserror) ==
  /\ pc = "loop"
  /\ UNCHANGED planner_vars
  /\ i <= Len(valid)
  /\ LET n == valid[i]
         a == actions[n]
     IN IF a.kind \notin Kinds
        THEN /\ failed' = Append(failed, FailedEntry(n, a, Unknown))
             /\ i' = i + 1
             /\ UNCHANGED <<wt, applied, trace>>
        ELSE LET r == Executor(wt, a, oserror) IN
             /\ wt' = r.store
             /\ trace' = Append(trace, Ev("execute", n, IF r.exc THEN r.msg[1] ELSE ""))
             /\ applied' = AppliedAfter(applied, n, a, r)
             /\ failed' = FailedAfter(failed, n, a, r)
             /\ i' = NextIndex(i, r, Len(valid))
  /\ UNCHANGED <<head, stash, pc, calls, actions, auto_commit, rebuild, git_works,
                 valid, skipped, stashed, build_ok, result, pre>>

RolledBack == "Build failed after applying actions - rolled back via git stash pop."
NoRollback == "Build failed after applying actions - no git stash available for rollback; workspace may be in an inconsistent state."

\* run_rebuild returns (True, report) or (False, report), or leaves through
\* load_needs' sys.exit(1) when the build succeeded and wrote no needs.json
RebuildOutcomes == {"ok", "failed", "exit"}

\* execute_plan after the loop: rebuild, roll back or drop the stash, commit
Finish(outcome) ==
  /\ pc = "loop"
  /\ UNCHANGED planner_vars
  /\ i > Len(valid)
  /\ LET runs == RunsRebuild(rebuild, applied)
         ok == ~runs \/ outcome # "failed"
         t1 == IF runs THEN Append(trace, Ev("rebuild", 0, "")) ELSE trace
     IN IF runs /\ outcome = "exit"
        THEN /\ pc' = "raised"
             /\ trace' = Append(trace, Ev("rebuild", 0, "SystemExit"))
             /\ UNCHANGED <<head, wt, stash, build_ok, result>>
        ELSE
        /\ pc' = "done"
        /\ build_ok' = ok
        /\ IF ~ok
           THEN IF PopsStash(stashed)
                THEN LET p == git_stash_pop(head, wt, stash) IN
                     /\ wt' = p.tree
                     /\ stash' = p.stack
                     /\ trace' = Append(t1, Ev("stash_pop", 0, ""))
                     /\ result' = [success |-> FALSE, applied |-> <<>>,
                                   failed |-> failed, skipped |-> skipped,
                                   build_output |-> "Rebuild failed",
                                   message |-> RolledBack]
                     /\ UNCHANGED head
                ELSE /\ trace' = t1
                     /\ result' = [success |-> FALSE, applied |-> applied,
                                   failed |-> failed, skipped |-> skipped,
                                   build_output |-> "Rebuild failed",
                                   message |-> NoRollback]
                     /\ UNCHANGED <<head, wt, stash>>
           ELSE LET drops == DropsStash(stashed)
                    t2 == IF drops THEN Append(t1, Ev("stash_drop", 0, "")) ELSE t1
                    commits == Commits(auto_commit, applied)
                IN /\ stash' = IF drops THEN git_stash_drop(stash) ELSE stash
                   /\ head' = IF commits THEN git_commit(head, wt, git_works) ELSE head
                   /\ trace' = IF commits THEN Append(t2, Ev("commit", 0, "")) ELSE t2
                   /\ result' = [success |-> AllSucceeded(failed), applied |-> applied,
                                 failed |-> failed, skipped |-> skipped,
                                 build_output |-> IF runs THEN "needs.json updated" ELSE "",
                                 message |-> "Plan executed"]
                   /\ UNCHANGED wt
  /\ UNCHANGED <<calls, actions, auto_commit, rebuild, git_works, valid, skipped,
                 stashed, i, applied, failed, pre>>

\* the caller takes the result or the exception; the workspace is ready for
\* the next call
Return ==
  /\ pc \in {"done", "raised"}
  /\ UNCHANGED planner_vars
  /\ pc' = "idle"
  /\ actions' = <<>>
  /\ auto_commit' = FALSE
  /\ rebuild' = FALSE
  /\ git_works' = TRUE
  /\ valid' = <<>>
  /\ skipped' = <<>>
  /\ stashed' = FALSE
  /\ i' = 1
  /\ applied' = <<>>
  /\ failed' = <<>>
  /\ build_ok' = TRUE
  /\ result' = NoResult
  /\ pre' = wt
  /\ trace' = <<>>
  /\ UNCHANGED <<head, wt, stash, calls>>

\* One call of execute_plan, from its arguments to its result.
CallOnce ==
  /\ pc = "idle"
  /\ calls = 0
  /\ \E batch \in Batches, ac \in BOOLEAN, rb \in BOOLEAN, git_ok \in BOOLEAN :
       Call(batch, ac, rb, git_ok)

Step == \E oserror \in BOOLEAN : ApplyAction(oserror)

End == \E outcome \in RebuildOutcomes : Finish(outcome)

Next == CallOnce \/ Step \/ End

Spec == Init /\ [][Next]_vars

\* A sequence of execute_plan calls on one workspace, one action per plan.
CallAgain ==
  /\ pc = "idle"
  /\ calls < MaxCalls
  /\ \E batch \in SinglePlans, ac \in BOOLEAN, rb \in BOOLEAN, git_ok \in BOOLEAN :
       Call(batch, ac, rb, git_ok)

NextSeq == CallAgain \/ Step \/ End \/ Return

SpecSeq == Init /\ [][NextSeq]_vars

\* validate_actions alone, on every batch of ValidationBatches.
InitValidate ==
  /\ head = Store0
  /\ wt = Store0
  /\ actions \in ValidationBatches
  /\ Locals0
  /\ NoPlanner

Validate ==
  /\ pc = "idle"
  /\ UNCHANGED planner_vars
  /\ LET v == validate_actions(actions) IN
     /\ valid' = v.valid
     /\ skipped' = v.skipped
  /\ pc' = "validated"
  /\ UNCHANGED <<head, wt, stash, calls, actions, auto_commit, rebuild, git_works,
                 stashed, i, applied, failed, build_ok, result, pre, trace>>

NextValidate == Validate

SpecValidate == InitValidate /\ [][NextValidate]_vars

\* ------------------------------------------------------------- properties
Range(q) == {q[k] : k \in 1..Len(q)}
Increasing(q) == \A k \in 1..(Len(q) - 1) : q[k] < q[k + 1]
PosOf(q) == [k \in 1..Len(q) |-> q[k].pos]
Executed == SelectSeq(trace, LAMBDA e : e.ev = "execute")
Happened(what) == \E k \in 1..Len(trace) : trace[k].ev = what
CountPos(q, n) == Cardinality({k \in 1..Len(q) : q[k].pos = n})

\* C1: when at least one action was applied, the rebuild failed and the stash
\* push created a stash, execute_plan returns with the store equal to the store
\* before the call, applied == [] and success == false.
C1_RollbackRestoresStore ==
  (pc = "done" /\ applied # <<>> /\ ~build_ok /\ stashed)
    => (wt = pre /\ result.applied = <<>> /\ result.success = FALSE)

\* C2 as stated: the returned success is true if and only if the returned
\* failed list is empty, whatever the outcome of the rebuild.
C2_SuccessIffFailedEmpty ==
  pc = "done" => (result.success <=> result.failed = <<>>)

\* C2 as amended: the returned success is true if and only if the returned
\* failed list is empty and the rebuild did not fail; skipped actions alone
\* never make it false.
C2_SuccessIffNoFailureAndBuildOk ==
  pc = "done" => (result.success <=> (result.failed = <<>> /\ build_ok))

C2_Witness ==
  /\ pc = "done"
  /\ result.skipped # <<>>
  /\ result.applied # <<>>
  /\ result.failed = <<>>
  /\ result.success

\* the SUPERSEDE actions validate_actions accepted, as edges old_id -> by_id
ValidEdges ==
  {<<actions[n].old_id, actions[n].by_id>> :
     n \in {m \in Range(valid) : actions[m].kind = "SUPERSEDE" /\ actions[m].by_id # <<>>}}

RECURSIVE ReachableFrom(_, _, _)
ReachableFrom(S, E, n) ==
  IF n = 0 THEN S
  ELSE ReachableFrom(S \cup {e[2] : e \in {d \in E : d[1] \in S}}, E, n - 1)

HasCycle(E) ==
  \E e \in E : e[1] \in ReachableFrom({e[2]}, E, Cardinality(E))

\* C3: the SUPERSEDE actions validate_actions returns as valid contain no cycle
\* of old_id -> by_id, whatever the batch.
C3_ValidSupersedesAcyclic ==
  pc = "validated" => ~HasCycle(ValidEdges)

\* the ids of the store's entities, file by file
IdsOf(ls) == SelectSeq(ls, LAMBDA l : l.k = "id")
IdsUnique(store) ==
  /\ \A t \in Types : \A m, n \in 1..Len(IdsOf(store[t])) :
       IdsOf(store[t])[m].val = IdsOf(store[t])[n].val => m = n
  /\ \A t, u \in Types : t # u =>
       \A m \in 1..Len(IdsOf(store[t])), n \in 1..Len(IdsOf(store[u])) :
         IdsOf(store[t])[m].val # IdsOf(store[u])[n].val

\* C4: after any sequence of execute_plan calls no two entities of the store
\* share an id (a replacement created by SUPERSEDE included).
C4_IdsUnique == IdsUnique(wt)

\* C5: validate_actions keeps the input order of the actions it accepts, the
\* valid actions are executed one at a time in that order, and the entries of
\* applied and failed follow the input order.
C5_AppliedInInputOrder ==
  /\ Range(valid) \subseteq 1..Len(actions)
  /\ Increasing(valid)
  /\ Increasing(PosOf(Executed))
  /\ \A k \in 1..Len(Executed) : \E m \in 1..(i - 1) : valid[m] = Executed[k].pos
  /\ Increasing(PosOf(applied))
  /\ Increasing(PosOf(failed))
  /\ Increasing(PosOf(result.applied))
  /\ Increasing(PosOf(result.failed))

C5_Witness ==
  /\ pc = "done"
  /\ Len(Executed) = 2
  /\ Len(result.applied) = 1
  /\ Len(result.failed) = 1
  /\ result.failed[1].pos < result.applied[1].pos

\* C6: a failing valid action does not stop the batch: every valid action is
\* attempted once and recorded in exactly one of applied or failed, and when
\* the rebuild does not fail len(applied) + len(failed) + len(skipped) is the
\* number of input actions.
C6_FailureIsolation ==
  pc = "done" =>
    /\ \A n \in Range(valid) :
         /\ CountPos(applied, n) + CountPos(failed, n) = 1
         /\ actions[n].kind \in Kinds => CountPos(Executed, n) = 1
    /\ build_ok =>
         /\ result.applied = applied
         /\ result.failed = failed
         /\ Len(result.applied) + Len(result.failed) + Len(result.skipped)
              = Len(actions)

C6_Witness ==
  /\ pc = "done"
  /\ build_ok
  /\ \E k \in 1..Len(result.failed) :
       /\ actions[result.failed[k].pos].kind \notin Kinds
       /\ \E m \in 1..Len(result.applied) :
            result.failed[k].pos < result.applied[m].pos

\* C7: an exception raised while an action is applied becomes one entry of
\* failed carrying the exception's message, the batch goes on with the next
\* action, and execute_plan returns a result holding that entry.
C7_ExceptionBecomesFailure ==
  /\ \A k \in 1..Len(Executed) :
       Executed[k].exc # "" =>
         /\ CountPos(applied, Executed[k].pos) = 0
         /\ CountPos(failed, Executed[k].pos) = 1
         /\ \A m \in 1..Len(failed) :
              failed[m].pos = Executed[k].pos => failed[m].error = <<Executed[k].exc>>
  /\ pc \in {"done", "raised"} =>
       \A n \in Range(valid) :
         actions[n].kind \in Kinds => CountPos(Executed, n) = 1
  /\ pc = "done" => result.failed = failed
  /\ pc = "raised" => trace[Len(trace)] = Ev("rebuild", 0, "SystemExit")

C7_Witness ==
  /\ pc = "done"
  /\ Len(Executed) = 2
  /\ Executed[1].exc = "OSError"
  /\ Executed[2].exc = "bogus"
  /\ Len(result.failed) = 2

\* C8: when validation leaves no valid action, execute_plan pushes no stash,
\* changes nothing in the store, runs no rebuild and no commit, and returns
\* success with applied and failed empty and skipped holding every rejected
\* action.
C8_NoValidActionsNoEffect ==
  (pc = "done" /\ valid = <<>>) =>
    /\ trace = <<>>
    /\ wt = pre
    /\ head = Store0
    /\ stash = <<>>
    /\ result.success
    /\ result.applied = <<>>
    /\ result.failed = <<>>
    /\ Len(result.skipped) = Len(actions)
    /\ \A n \in 1..Len(actions) :
         /\ result.skipped[n].pos = n
         /\ result.skipped[n].action = to_dict(actions[n])

C8_Witness ==
  /\ pc = "done"
  /\ valid = <<>>
  /\ Len(actions) = 2
  /\ wt # head

\* C9: when the rebuild fails and no stash was created, execute_plan pops no
\* stash and commits nothing, leaves the store as the applied actions modified
\* it, and returns success == false with applied as it is and a message saying
\* that no rollback could be done.
C9_NoStashNoRollback ==
  [][(pc = "loop" /\ pc' = "done" /\ ~build_ok' /\ ~stashed) =>
       /\ wt' = wt
       /\ head' = head
       /\ stash' = stash
       /\ trace' = Append(trace, Ev("rebuild", 0, ""))
       /\ result'.success = FALSE
       /\ result'.applied = applied
       /\ applied # <<>>
       /\ result'.failed = failed
       /\ result'.message = NoRollback]_vars

C9_Witness ==
  /\ pc = "done"
  /\ ~build_ok
  /\ ~stashed
  /\ pre # head
  /\ wt # pre
  /\ ~Happened("stash_pop")
  /\ ~Happened("commit")
  /\ auto_commit

\* the required field a lacks, "" when it lacks none
MissingField(a) ==
  IF a.kind \in {"RETAG", "DEPRECATE", "UPDATE"} /\ a.id = <<>> THEN "id"
  ELSE IF a.kind = "SUPERSEDE" /\ a.old_id = <<>> THEN "old_id"
  ELSE IF a.kind = "SPLIT_FILE" /\ a.rst_path = "" THEN "rst_path"
  ELSE ""

NamesField(reason, kind, field) ==
  reason = (CASE field = "id" /\ kind = "RETAG" -> "RETAG requires 'id'"
              [] field = "id" /\ kind = "DEPRECATE" -> "DEPRECATE requires 'id'"
              [] field = "id" /\ kind = "UPDATE" -> "UPDATE requires 'id'"
              [] field = "old_id" -> "SUPERSEDE requires 'old_id'"
              [] field = "rst_path" -> "SPLIT_FILE requires 'rst_path'")

\* C10: validate_actions puts every input action in exactly one of valid or
\* skipped; an action lacking its required field is skipped with a reason
\* naming that field; a well-formed action that is not a SUPERSEDE is accepted
\* whatever else the batch holds.
C10_ValidatePartition ==
  pc = "validated" =>
    \A n \in 1..Len(actions) :
      /\ Cardinality({k \in 1..Len(valid) : valid[k] = n}) + CountPos(skipped, n) = 1
      /\ MissingField(actions[n]) # "" =>
           \E k \in 1..Len(skipped) :
             /\ skipped[k].pos = n
             /\ NamesField(skipped[k].reason, actions[n].kind, MissingField(actions[n]))
      /\ (MissingField(actions[n]) = "" /\ actions[n].kind # "SUPERSEDE") =>
           n \in Range(valid)

C10_Witness ==
  /\ pc = "validated"
  /\ Len(actions) = 3
  /\ actions[1].kind = "DEPRECATE" /\ MissingField(actions[1]) = "id"
  /\ actions[2].kind = "SUPERSEDE" /\ actions[2].old_id = actions[2].by_id
  /\ actions[3].kind = "RETAG"
  /\ valid = <<3>>
  /\ Len(skipped) = 2

\* the kinds whose executor hands action.id to a store mutation primitive
IdKinds == {"RETAG", "DEPRECATE", "UPDATE", "PRUNE"}

\* C11: every action that validate_actions accepts and whose kind is RETAG,
\* DEPRECATE, UPDATE or PRUNE has a non-empty id, so no executor is invoked
\* with an empty target id.
C11_AcceptedHaveTargetId ==
  /\ \A k \in 1..Len(valid) :
       actions[valid[k]].kind \in IdKinds => actions[valid[k]].id # <<>>
  /\ \A k \in 1..Len(Executed) :
       actions[Executed[k].pos].kind \in IdKinds => actions[Executed[k].pos].id # <<>>

\* ------------------------------------------- serialization of a plan
\* d.get(key, default)
Get(d, key, default) == IF key \in DOMAIN d THEN d[key] ELSE default

\* the empty value of a field: '' for the text fields, [] or {} for the others
Empty(key) == IF key \in StringKeys THEN "" ELSE <<>>

\* the Action built from one dict, with by_id never read from it
action_from_dictDropsById(d) ==
  [kind |-> Get(d, "kind", "UPDATE"),
   reason |-> Get(d, "reason", ""),
   id |-> Get(d, "id", <<>>),
   add_tags |-> Get(d, "add_tags", <<>>),
   remove_tags |-> Get(d, "remove_tags", <<>>),
   field_changes |-> Get(d, "field_changes", <<>>),
   old_id |-> Get(d, "old_id", <<>>),
   new_type |-> Get(d, "new_type", ""),
   new_title |-> Get(d, "new_title", <<>>),
   new_body |-> Get(d, "new_body", ""),
   new_tags |-> Get(d, "new_tags", <<>>),
   new_links |-> Get(d, "new_links", <<>>),
   by_id |-> <<>>,
   rst_path |-> Get(d, "rst_path", "")]

\* the Action built from one dict of the list given to actions_from_json
action_from_dict(d) ==
  [kind |-> Get(d, "kind", "UPDATE"),
   reason |-> Get(d, "reason", ""),
   id |-> Get(d, "id", <<>>),
   add_tags |-> Get(d, "add_tags", <<>>),
   remove_tags |-> Get(d, "remove_tags", <<>>),
   field_changes |-> Get(d, "field_changes", <<>>),
   old_id |-> Get(d, "old_id", <<>>),
   new_type |-> Get(d, "new_type", ""),
   new_title |-> Get(d, "new_title", <<>>),
   new_body |-> Get(d, "new_body", ""),
   new_tags |-> Get(d, "new_tags", <<>>),
   new_links |-> Get(d, "new_links", <<>>),
   by_id |-> Get(d, "by_id", <<>>),
   rst_path |-> Get(d, "rst_path", "")]

actions_from_json(data) == [n \in 1..Len(data) |-> action_from_dict(data[n])]

\* the constructed actions: kind one of the six kinds, each other field either
\* populated or left empty
OptionalKeys == (StringKeys \cup SeqKeys) \ {"kind"}

Populated ==
  [reason |-> "r", id |-> MEM_a, add_tags |-> <<"t1">>, remove_tags |-> <<"t0">>,
   field_changes |-> <<<<"status", "review">>>>, old_id |-> MEM_ab,
   new_type |-> "mem", new_title |-> <<"A">>, new_body |-> "b",
   new_tags |-> <<"t1">>, new_links |-> <<DEC_b>>, by_id |-> DEC_b,
   rst_path |-> "p"]

Constructed(kind, given) ==
  [key \in StringKeys \cup SeqKeys |->
     IF key = "kind" THEN kind
     ELSE IF key \in given THEN Populated[key] ELSE Empty(key)]

ConstructedActions == {Constructed(k, g) : k \in Kinds, g \in SUBSET OptionalKeys}

InitRoundTrip ==
  /\ head = Store0
  /\ wt = Store0
  /\ actions \in {<<a>> : a \in ConstructedActions}
  /\ Locals0
  /\ NoPlanner

\* [a.to_dict() for a in actions]
Serialize ==
  /\ pc = "idle"
  /\ wire' = [n \in 1..Len(actions) |-> to_dict(actions[n])]
  /\ pc' = "serialized"
  /\ UNCHANGED <<head, wt, stash, calls, actions, auto_commit, rebuild, git_works,
                 valid, skipped, stashed, i, applied, failed, build_ok, result, pre,
                 trace, needs, today, plans, restored>>

\* actions_from_json(wire)
Deserialize ==
  /\ pc = "serialized"
  /\ restored' = actions_from_json(wire)
  /\ pc' = "restored"
  /\ UNCHANGED <<head, wt, stash, calls, actions, auto_commit, rebuild, git_works,
                 valid, skipped, stashed, i, applied, failed, build_ok, result, pre,
                 trace, needs, today, plans, wire>>

NextRoundTrip == Serialize \/ Deserialize

SpecRoundTrip == InitRoundTrip /\ [][NextRoundTrip]_vars

\* C12: for every constructed Action a, actions_from_json([a.to_dict()])[0]
\* equals a on every field; to_dict holds a key exactly for the non-empty
\* fields, and each omitted field comes back as its empty value.
C12_RoundTrip ==
  /\ pc \in {"serialized", "restored"} =>
       \A n \in 1..Len(actions) :
         DOMAIN wire[n] = {key \in DOMAIN actions[n] : actions[n][key] # Empty(key)}
  /\ pc = "restored" =>
       /\ Len(restored) = Len(actions)
       /\ \A n \in 1..Len(actions) :
            /\ \A key \in DOMAIN actions[n] : restored[n][key] = actions[n][key]
            /\ \A key \in DOMAIN actions[n] \ DOMAIN wire[n] :
                 restored[n][key] = Empty(key)

C12_Witness ==
  /\ pc = "restored"
  /\ actions[1].kind = "SUPERSEDE"
  /\ actions[1].old_id # <<>> /\ actions[1].by_id # <<>> /\ actions[1].new_tags # <<>>
  /\ actions[1].id = <<>> /\ actions[1].reason = "" /\ actions[1].field_changes = <<>>
  /\ DOMAIN wire[1] = {"kind", "old_id", "by_id", "new_tags"}
  /\ restored[1] = actions[1]

\* ------------------------------------------------- planner.py: detectors
\* An entity of the snapshot is a record with the fields of needs.json the
\* detectors read; a tag is a string, a title a list of characters, a date
\* the list <<year, month, day>> of an ISO date (<<>> for the empty string).
LinkKinds == <<"relates", "supports", "depends", "contradicts", "supersedes">>

\* str < str on ISO dates: lexicographic order, "" before everything else
RECURSIVE LexLess(_, _)
LexLess(s, t) ==
  IF t = <<>> THEN FALSE
  ELSE IF s = <<>> THEN TRUE
  ELSE IF s[1] # t[1] THEN s[1] < t[1]
  ELSE LexLess(Tail(s), Tail(t))

LexLeq(s, t) == s = t \/ LexLess(s, t)

\* str.lower() on the tags of the model
LowerTag(t) == IF t = "topic:A" THEN "topic:a" ELSE t
\* tag.startswith(prefix)
StartsWith(t, prefix) ==
  \/ prefix = "topic:" /\ t \in {"topic:a", "topic:A", "topic:b"}
  \/ prefix = "repo:" /\ t \in {"repo:a"}

LowerTitle(title) == [k \in 1..Len(title) |-> Lower(title[k])]

\* _active_needs with deprecated entities kept
active_needsAll(snapshot) == snapshot

\* _active_needs: the non-deprecated entities, in the snapshot's order
active_needs(snapshot) == SelectSeq(snapshot, LAMBDA n : n.status # "deprecated")

\* difflib.SequenceMatcher(None, a, b): the total size of the matching blocks
\* between a[alo..ahi] and b[blo..bhi].  find_longest_match returns the
\* longest block, of those the one starting earliest in a, of those the one
\* starting earliest in b; the parts left and right of it are matched in
\* turn.  (No element is junk: autojunk needs 200 elements.)
RECURSIVE MatchSize(_, _, _, _, _, _)
MatchSize(a, b, alo, ahi, blo, bhi) ==
  LET blocks == {x \in (alo..ahi) \X (blo..bhi) \X (1..Min(ahi - alo + 1, bhi - blo + 1)) :
                   /\ x[1] + x[3] - 1 <= ahi
                   /\ x[2] + x[3] - 1 <= bhi
                   /\ \A d \in 0..(x[3] - 1) : a[x[1] + d] = b[x[2] + d]}
      before(x, y) == \/ x[3] > y[3]
                      \/ x[3] = y[3] /\ x[1] < y[1]
                      \/ x[3] = y[3] /\ x[1] = y[1] /\ x[2] <= y[2]
  IN IF blocks = {} THEN 0
     ELSE LET m == CHOOSE x \in blocks : \A y \in blocks : before(x, y)
          IN m[3] + MatchSize(a, b, alo, m[1] - 1, blo, m[2] - 1)
                  + MatchSize(a, b, m[1] + m[3], ahi, m[2] + m[3], bhi)

\* the default thresholds of detect_duplicates, as fractions
TITLE_THRESHOLD_NUM == 4
TITLE_THRESHOLD_DEN == 5
TAG_OVERLAP_NUM == 1
TAG_OVERLAP_DEN == 2

\* SequenceMatcher(None, a, b).ratio() >= title_threshold, the ratio being
\* 2.0 * matches / (len(a) + len(b)), and 1.0 for two empty strings
TitleSimilar(a, b) ==
  \/ Len(a) + Len(b) = 0
  \/ 2 * MatchSize(a, b, 1, Len(a), 1, Len(b)) * TITLE_THRESHOLD_DEN
       >= TITLE_THRESHOLD_NUM * (Len(a) + Len(b))

\* union non-empty and len(tags1 & tags2) / len(union) >= tag_overlap_threshold
TagsOverlap(tags1, tags2) ==
  LET s1 == {tags1[k] : k \in 1..Len(tags1)}
      s2 == {tags2[k] : k \in 1..Len(tags2)}
  IN /\ s1 \cup s2 # {}
     /\ Cardinality(s1 \cap s2) * TAG_OVERLAP_DEN
          >= TAG_OVERLAP_NUM * Cardinality(s1 \cup s2)

\* conf_rank.get(confidence, 1)
conf_rank(c) == IF c = "high" THEN 2 ELSE IF c = "low" THEN 0 ELSE 1

\* score2 > score1 on the tuples (conf_rank, created_at)
ScoreGreater(n2, n1) ==
  \/ conf_rank(n2.confidence) > conf_rank(n1.confidence)
  \/ /\ conf_rank(n2.confidence) = conf_rank(n1.confidence)
     /\ LexLess(n1.created_at, n2.created_at)

\* the pairs (i, j), i < j, in the order of the two nested loops
RECURSIVE PairsFrom(_, _, _)
PairsFrom(n, a, b) ==
  IF a >= n THEN <<>>
  ELSE IF b > n THEN PairsFrom(n, a + 1, a + 2)
  ELSE <<<<a, b>>>> \o PairsFrom(n, a, b + 1)

\* Pairs with the first entity paired with itself too
PairsWithSelf(n) == PairsFrom(n, 1, 1)

Pairs(n) == PairsFrom(n, 1, 2)

\* the entity detect_duplicates keeps, taken as the one with the lower score
DuplicateActionKeepsLower(n1, n2) ==
  IF ~ScoreGreater(n2, n1)
  THEN [Action("SUPERSEDE") EXCEPT !.reason = "Near-duplicate",
                                   !.old_id = n1.id, !.by_id = n2.id]
  ELSE [Action("SUPERSEDE") EXCEPT !.reason = "Near-duplicate",
                                   !.old_id = n2.id, !.by_id = n1.id]

\* the SUPERSEDE action of a duplicate pair, n1 listed before n2
DuplicateAction(n1, n2) ==
  IF ScoreGreater(n2, n1)
  THEN [Action("SUPERSEDE") EXCEPT !.reason = "Near-duplicate",
                                   !.old_id = n1.id, !.by_id = n2.id]
  ELSE [Action("SUPERSEDE") EXCEPT !.reason = "Near-duplicate",
                                   !.old_id = n2.id, !.by_id = n1.id]

\* pair in seen_pairs: an action was emitted for the same two ids
SeenPair(emitted, id1, id2) ==
  \E k \in 1..Len(emitted) : {emitted[k].old_id, emitted[k].by_id} = {id1, id2}

RECURSIVE DuplicatesLoop(_, _, _)
DuplicatesLoop(items, pairs, k) ==
  IF k = 0 THEN <<>>
  ELSE LET n1 == items[pairs[k][1]]
           n2 == items[pairs[k][2]]
           rest == DuplicatesLoop(items, pairs, k - 1)
       IN IF /\ ~SeenPair(rest, n1.id, n2.id)
             /\ TitleSimilar(LowerTitle(n1.title), LowerTitle(n2.title))
             /\ TagsOverlap(n1.tags, n2.tags)
          THEN Append(rest, DuplicateAction(n1, n2))
          ELSE rest

detect_duplicates(snapshot) ==
  LET items == active_needs(snapshot)
      pairs == Pairs(Len(items))
  IN DuplicatesLoop(items, pairs, Len(pairs))

\* any(t.startswith(prefix) for t in tags)
HasTagWith(tags, prefix) == \E k \in 1..Len(tags) : StartsWith(tags[k], prefix)

MissingReason(tags) ==
  IF ~HasTagWith(tags, "topic:") /\ ~HasTagWith(tags, "repo:")
  THEN "Missing required tag prefix(es): topic:, repo:"
  ELSE IF ~HasTagWith(tags, "topic:") THEN "Missing required tag prefix(es): topic:"
  ELSE IF ~HasTagWith(tags, "repo:") THEN "Missing required tag prefix(es): repo:"
  ELSE ""

RECURSIVE MissingTagsLoop(_, _)
MissingTagsLoop(items, k) ==
  IF k = 0 THEN <<>>
  ELSE LET rest == MissingTagsLoop(items, k - 1)
           why == MissingReason(items[k].tags)
       IN IF why # ""
          THEN Append(rest, [Action("RETAG") EXCEPT !.reason = why, !.id = items[k].id])
          ELSE rest

detect_missing_tags(snapshot) ==
  LET items == active_needs(snapshot) IN MissingTagsLoop(items, Len(items))

ToReview == <<<<"status", "review">>>>

\* the branch of detect_stale an entity takes, with the review date tested first
StaleReasonReviewFirst(need, day) ==
  IF need.review_after # <<>> /\ LexLeq(need.review_after, day) THEN "Review overdue"
  ELSE IF need.expires_at # <<>> /\ LexLeq(need.expires_at, day) THEN "Expired"
  ELSE ""

\* the branch of detect_stale an entity takes: "" when it takes none
StaleReason(need, day) ==
  IF need.expires_at # <<>> /\ LexLeq(need.expires_at, day) THEN "Expired"
  ELSE IF need.review_after # <<>> /\ LexLeq(need.review_after, day) THEN "Review overdue"
  ELSE ""

RECURSIVE StaleLoop(_, _, _)
StaleLoop(items, day, k) ==
  IF k = 0 THEN <<>>
  ELSE LET rest == StaleLoop(items, day, k - 1)
           why == StaleReason(items[k], day)
       IN IF why # ""
          THEN Append(rest, [Action("UPDATE") EXCEPT !.reason = why, !.id = items[k].id,
                                                     !.field_changes = ToReview])
          ELSE rest

detect_stale(snapshot, day) ==
  LET items == active_needs(snapshot) IN StaleLoop(items, day, Len(items))

RECURSIVE Flatten(_)
Flatten(ss) == IF ss = <<>> THEN <<>> ELSE ss[1] \o Flatten(Tail(ss))

\* the (topic, id) entries detect_conflicts appends to by_topic, in order
TopicEntries(items) ==
  Flatten([k \in 1..Len(items) |->
             IF items[k].type \in {"dec", "pref"}
             THEN LET topics == SelectSeq(items[k].tags, LAMBDA t : StartsWith(t, "topic:"))
                  IN [x \in 1..Len(topics) |-> [topic |-> topics[x], id |-> items[k].id]]
             ELSE <<>>])

\* by_topic[topic]
IdsOfTopic(entries, topic) ==
  LET es == SelectSeq(entries, LAMBDA e : e.topic = topic)
  IN [k \in 1..Len(es) |-> es[k].id]

\* the pairs (id1, id2) the nested loops of detect_conflicts visit, in order:
\* topic by topic, groups of fewer than two ids left out
ConflictCandidates(entries) ==
  LET topics == Dedup([k \in 1..Len(entries) |-> entries[k].topic])
  IN Flatten([t \in 1..Len(topics) |->
                LET ids == IdsOfTopic(entries, topics[t])
                    ps == Pairs(Len(ids))
                IN [k \in 1..Len(ps) |-> <<ids[ps[k][1]], ids[ps[k][2]]>>]])

\* the ids an entity links to by any of the link kinds
LinksOf(need) ==
  UNION {{need[LinkKinds[l]][k] : k \in 1..Len(need[LinkKinds[l]])} : l \in 1..Len(LinkKinds)}

ById(items, id) == items[CHOOSE k \in 1..Len(items) : items[k].id = id]

\* an id as the text it is
RECURSIVE IdText(_)
IdText(id) == IF id = <<>> THEN "" ELSE id[1] \o IdText(Tail(id))

\* the reason of a conflict action names the two entities, id1 first
ConflictReason(id1, id2) ==
  "Potential conflict: " \o IdText(id1) \o " and " \o IdText(id2)

\* id2 not in links1 and id1 not in links2, with the second test left out
UnlinkedOneWay(n1, n2) == n2.id \notin LinksOf(n1)

\* id2 not in links1 and id1 not in links2
Unlinked(n1, n2) == n2.id \notin LinksOf(n1) /\ n1.id \notin LinksOf(n2)

RECURSIVE ConflictsLoop(_, _, _)
ConflictsLoop(items, cands, k) ==
  IF k = 0 THEN <<>>
  ELSE LET rest == ConflictsLoop(items, cands, k - 1)
           seen == \E m \in 1..(k - 1) :
                     {cands[m][1], cands[m][2]} = {cands[k][1], cands[k][2]}
       IN IF ~seen /\ Unlinked(ById(items, cands[k][1]), ById(items, cands[k][2]))
          THEN Append(rest, [Action("UPDATE") EXCEPT
                              !.reason = ConflictReason(cands[k][1], cands[k][2]),
                              !.id = cands[k][1]])
          ELSE rest

detect_conflicts(snapshot) ==
  LET items == active_needs(snapshot)
      cands == ConflictCandidates(TopicEntries(items))
  IN ConflictsLoop(items, cands, Len(cands))

\* tag_usage: the occurrences of the exact form t among the entities' tags
Usage(items, t) ==
  LET occ == Flatten([k \in 1..Len(items) |-> items[k].tags])
  IN Cardinality({k \in 1..Len(occ) : occ[k] = t})

\* the elements of the set forms in the order the process iterates a set of
\* strings; order lists every tag once
IterateSet(forms, order) == SelectSeq(order, LAMBDA t : t \in forms)

\* a least used form taken as canonical
CanonicalLeastUsed(items, forms, order) ==
  LET it == IterateSet(forms, order)
      k == CHOOSE x \in 1..Len(it) :
             /\ \A y \in 1..Len(it) : Usage(items, it[y]) >= Usage(items, it[x])
             /\ \A y \in 1..(x - 1) : Usage(items, it[y]) > Usage(items, it[x])
  IN it[k]

\* max(forms, key=lambda t: tag_usage[t]): the first form of maximal usage
\* in the set's iteration order
Canonical(items, forms, order) ==
  LET it == IterateSet(forms, order)
      k == CHOOSE x \in 1..Len(it) :
             /\ \A y \in 1..Len(it) : Usage(items, it[y]) <= Usage(items, it[x])
             /\ \A y \in 1..(x - 1) : Usage(items, it[y]) < Usage(items, it[x])
  IN it[k]

\* the RETAG actions of one group of forms
GroupActions(items, forms, order) ==
  IF Cardinality(forms) <= 1 THEN <<>>
  ELSE LET canonical == Canonical(items, forms, order)
           non_canonical == IterateSet(forms \ {canonical}, order)
       IN Flatten([f \in 1..Len(non_canonical) |->
            LET carriers == SelectSeq(items, LAMBDA n : Contains(n.tags, non_canonical[f]))
            IN [k \in 1..Len(carriers) |->
                 [Action("RETAG") EXCEPT !.reason = "Tag normalization",
                                         !.id = carriers[k].id,
                                         !.remove_tags = <<non_canonical[f]>>,
                                         !.add_tags = <<canonical>>]]])

detect_tag_normalization(snapshot, order) ==
  LET items == active_needs(snapshot)
      exact == Dedup(Flatten([k \in 1..Len(items) |-> items[k].tags]))
      lowered == Dedup([k \in 1..Len(exact) |-> LowerTag(exact[k])])
  IN Flatten([g \in 1..Len(lowered) |->
       GroupActions(items, {exact[k] : k \in {x \in 1..Len(exact) : LowerTag(exact[x]) = lowered[g]}},
                    order)])

\* ------------------------------------------------------- planner inputs
D05 == <<2026, 1, 5>>
D10 == <<2026, 1, 10>>
D15 == <<2026, 1, 15>>
D20 == <<2026, 1, 20>>
D25 == <<2026, 1, 25>>

DEC_1 == <<"DEC", "_", "1">>
DEC_2 == <<"DEC", "_", "2">>
PREF_3 == <<"PREF", "_", "3">>
DEC_4 == <<"DEC", "_", "4">>
DEC_5 == <<"DEC", "_", "5">>
MEM_6 == <<"MEM", "_", "6">>
MEM_7 == <<"MEM", "_", "7">>
MEM_8 == <<"MEM", "_", "8">>

Need(id, type, title, status, tags, confidence, created_at) ==
  [id |-> id, type |-> type, title |-> title, status |-> status, tags |-> tags,
   confidence |-> confidence, created_at |-> created_at,
   expires_at |-> <<>>, review_after |-> <<>>,
   relates |-> <<>>, supports |-> <<>>, depends |-> <<>>, contradicts |-> <<>>,
   supersedes |-> <<>>]

T_aaaba == <<"a", "a", "a", "b", "a">>
T_abaab == <<"a", "b", "a", "a", "b">>
T_Aaaba == <<"A", "a", "a", "b", "a">>
T_ab == <<"a", "b">>

\* the entities the snapshots are made of
NeedPool ==
  { Need(DEC_1, "dec", T_aaaba, "active", <<"topic:a", "repo:a">>, "medium", D10),
    [Need(DEC_2, "dec", T_abaab, "active", <<"topic:a", "repo:a">>, "high", D15)
       EXCEPT !.expires_at = D10, !.review_after = D10, !.contradicts = <<DEC_4>>],
    [Need(PREF_3, "pref", T_Aaaba, "active", <<"topic:a", "topic:A", "repo:a">>, "high", D05)
       EXCEPT !.expires_at = D25, !.review_after = D20, !.relates = <<DEC_1>>],
    [Need(DEC_4, "dec", T_ab, "active", <<"topic:A", "topic:a">>, "low", D15)
       EXCEPT !.expires_at = D20],
    [Need(DEC_5, "dec", T_ab, "deprecated", <<"topic:A">>, "high", D15)
       EXCEPT !.expires_at = D10],
    Need(MEM_6, "mem", T_aaaba, "active", <<>>, "medium", D10),
    [Need(MEM_7, "mem", T_aaaba, "active", <<"topic:a", "repo:a">>, "medium", D10)
       EXCEPT !.review_after = D25],
    Need(MEM_8, "mem", T_aaaba, "draft", <<>>, "low", D10) }

\* needs.json is a dict keyed by id: no two entities of a snapshot share an id
Snapshots ==
  {q \in SeqsUpTo(NeedPool, MaxNeeds) :
     \A a, b \in 1..Len(q) : a # b => q[a].id # q[b].id}

\* the orders in which a process may iterate a set of tags (string hashing is
\* seeded per process)
TagUniverse == {"topic:a", "topic:A", "repo:a"}
HashOrders ==
  {o \in [1..Cardinality(TagUniverse) -> TagUniverse] :
     \A a, b \in 1..Cardinality(TagUniverse) : a # b => o[a] # o[b]}

Checks == {"duplicates", "missing_tags", "stale", "conflicts", "tag_normalize"}

NotRun == [ran |-> FALSE, out |-> <<>>]

InitPlan ==
  /\ head = Store0
  /\ wt = Store0
  /\ actions = <<>>
  /\ Locals0
  /\ needs \in Snapshots
  /\ today = D20
  /\ plans = [c \in Checks |-> NotRun]
  /\ wire = <<>>
  /\ restored = <<>>

\* one run of a detector on the snapshot: its output replaces the check's entry
Ran(check, out) ==
  /\ pc = "idle"
  /\ plans' = [plans EXCEPT ![check] = [ran |-> TRUE, out |-> out]]
  /\ UNCHANGED <<head, wt, stash, pc, calls, actions, auto_commit, rebuild, git_works,
                 valid, skipped, stashed, i, applied, failed, build_ok, result, pre,
                 trace, needs, today, wire, restored>>

DetectDuplicates == Ran("duplicates", detect_duplicates(needs))
DetectMissingTags == Ran("missing_tags", detect_missing_tags(needs))
DetectStale == Ran("stale", detect_stale(needs, today))
DetectConflicts == Ran("conflicts", detect_conflicts(needs))
DetectTagNormalization ==
  \E order \in HashOrders : Ran("tag_normalize", detect_tag_normalization(needs, order))

NextPlan ==
  \/ DetectDuplicates
  \/ DetectMissingTags
  \/ DetectStale
  \/ DetectConflicts
  \/ DetectTagNormalization

SpecPlan == InitPlan /\ [][NextPlan]_vars

\* ---------------------------------------------- properties of the planner
\* the positions of the snapshot's non-deprecated entities
ActiveIdx == {k \in 1..Len(needs) : needs[k].status # "deprecated"}
TagSet(n) == {n.tags[k] : k \in 1..Len(n.tags)}
OutOf(check) == plans[check].out
Entity(id) == needs[CHOOSE k \in 1..Len(needs) : needs[k].id = id]
InSnapshot(id) == \E k \in 1..Len(needs) : needs[k].id = id

\* the SUPERSEDE actions detect_duplicates returned for the entities A and B
DuplicateActionsFor(A, B) ==
  {k \in 1..Len(OutOf("duplicates")) :
     /\ OutOf("duplicates")[k].kind = "SUPERSEDE"
     /\ {OutOf("duplicates")[k].old_id, OutOf("duplicates")[k].by_id} = {A.id, B.id}}

\* C13: detect_duplicates emits a SUPERSEDE action for the pair {A, B} of
\* distinct non-deprecated entities if and only if the similarity of their
\* lower-cased titles is at least the title threshold and the Jaccard overlap
\* of their tags is at least the overlap threshold, exactly one action per such
\* pair, whichever of A and B the snapshot lists first.
C13_DuplicatesIffSimilar ==
  plans["duplicates"].ran =>
    \A a, b \in ActiveIdx :
      a # b =>
        LET similar == /\ TitleSimilar(LowerTitle(needs[a].title), LowerTitle(needs[b].title))
                       /\ TagsOverlap(needs[a].tags, needs[b].tags)
        IN Cardinality(DuplicateActionsFor(needs[a], needs[b])) = IF similar THEN 1 ELSE 0

\* C14: in every SUPERSEDE action of detect_duplicates, by_id is the pair
\* member with the larger (confidence rank, created_at): the kept entity never
\* has a lower confidence than the deprecated one, and with equal confidence
\* it is not the one created earlier.
C14_KeepsHigherScore ==
  plans["duplicates"].ran =>
    \A k \in 1..Len(OutOf("duplicates")) :
      LET act == OutOf("duplicates")[k] IN
      /\ act.kind = "SUPERSEDE"
      /\ InSnapshot(act.by_id) /\ InSnapshot(act.old_id) /\ act.by_id # act.old_id
      /\ LET kept == Entity(act.by_id)
             old == Entity(act.old_id)
         IN /\ conf_rank(kept.confidence) >= conf_rank(old.confidence)
            /\ conf_rank(kept.confidence) = conf_rank(old.confidence)
                 => LexLeq(old.created_at, kept.created_at)

C14_Witness ==
  /\ plans["duplicates"].ran
  /\ Len(needs) = 3
  /\ needs[1].id = DEC_1 /\ needs[2].id = DEC_2 /\ needs[3].id = PREF_3
  /\ Len(OutOf("duplicates")) = 2
  /\ OutOf("duplicates")[1].old_id = DEC_1 /\ OutOf("duplicates")[1].by_id = DEC_2
  /\ OutOf("duplicates")[2].old_id = DEC_1 /\ OutOf("duplicates")[2].by_id = PREF_3
  /\ LexLess(Entity(PREF_3).created_at, Entity(DEC_1).created_at)

DeprecatedIds == {needs[k].id : k \in {x \in 1..Len(needs) : needs[x].status = "deprecated"}}

\* the number of non-deprecated entities carrying the tag t
CarriedBy(t) == Cardinality({k \in ActiveIdx : t \in TagSet(needs[k])})

\* C15: no action returned by detect_duplicates, detect_missing_tags,
\* detect_stale, detect_conflicts or detect_tag_normalization names a
\* deprecated entity as id, old_id or by_id, and the tags of deprecated
\* entities do not count when detect_tag_normalization picks the canonical form.
C15_DeprecatedExcluded ==
  /\ \A c \in Checks :
       plans[c].ran =>
         \A k \in 1..Len(OutOf(c)) :
           /\ OutOf(c)[k].id \notin DeprecatedIds
           /\ OutOf(c)[k].old_id \notin DeprecatedIds
           /\ OutOf(c)[k].by_id \notin DeprecatedIds
  /\ plans["tag_normalize"].ran =>
       \A k \in 1..Len(OutOf("tag_normalize")) :
         CarriedBy(OutOf("tag_normalize")[k].add_tags[1])
           >= CarriedBy(OutOf("tag_normalize")[k].remove_tags[1])

\* a deprecated entity that is expired, lacks a repo: tag, has the title of an
\* active entity and shares its topic, next to active entities that are flagged
C15_Witness ==
  /\ \A c \in Checks : plans[c].ran
  /\ Len(needs) = 3
  /\ needs[1].id = DEC_5 /\ needs[1].status = "deprecated"
  /\ needs[2].id = DEC_4 /\ needs[3].id = DEC_1
  /\ needs[1].title = needs[2].title
  /\ LexLeq(needs[1].expires_at, today)
  /\ TagSet(needs[1]) \cap TagSet(needs[2]) # {}
  /\ Len(OutOf("stale")) = 1 /\ OutOf("stale")[1].id = DEC_4
  /\ Len(OutOf("missing_tags")) = 1 /\ OutOf("missing_tags")[1].id = DEC_4
  /\ Len(OutOf("conflicts")) = 1
  /\ Len(OutOf("tag_normalize")) = 1
  /\ OutOf("tag_normalize")[1].add_tags = <<"topic:a">>

\* C16: every detector is deterministic: a run on the snapshot a detector has
\* already run on, with the same date, returns the same list of actions.
C16_Deterministic ==
  [][\A c \in Checks : plans[c].ran => plans'[c] = plans[c]]_vars

\* the status change of an UPDATE returned by detect_stale
IsReviewUpdate(act) ==
  /\ act.kind = "UPDATE"
  /\ act.field_changes = <<<<"status", "review">>>>

TopicsOfEntity(n) == {t \in TagSet(n) : StartsWith(t, "topic:")}

\* some link of any kind from n to m
LinksTo(n, m) ==
  \E l \in 1..Len(LinkKinds) : \E k \in 1..Len(n[LinkKinds[l]]) : n[LinkKinds[l]][k] = m.id

\* the pairs detect_conflicts has to report: two distinct non-deprecated
\* decisions or preferences sharing a topic: tag, not linked either way
ConflictPairs ==
  {p \in ActiveIdx \X ActiveIdx :
     /\ p[1] < p[2]
     /\ needs[p[1]].type \in {"dec", "pref"}
     /\ needs[p[2]].type \in {"dec", "pref"}
     /\ TopicsOfEntity(needs[p[1]]) \cap TopicsOfEntity(needs[p[2]]) # {}
     /\ ~LinksTo(needs[p[1]], needs[p[2]])
     /\ ~LinksTo(needs[p[2]], needs[p[1]])}

\* the actions detect_conflicts returned about the entities at a and b
ConflictActionsFor(a, b) ==
  {k \in 1..Len(OutOf("conflicts")) :
     OutOf("conflicts")[k].reason \in {ConflictReason(needs[a].id, needs[b].id),
                                       ConflictReason(needs[b].id, needs[a].id)}}

\* C18: detect_conflicts returns exactly one UPDATE action with empty
\* field_changes for each unordered pair of distinct non-deprecated decisions
\* or preferences that share a topic: tag and are not linked in either
\* direction, its id being one member of the pair, and nothing else.
C18_ConflictsOncePerPair ==
  plans["conflicts"].ran =>
    /\ \A p \in ConflictPairs :
         /\ Cardinality(ConflictActionsFor(p[1], p[2])) = 1
         /\ \A k \in ConflictActionsFor(p[1], p[2]) :
              /\ OutOf("conflicts")[k].kind = "UPDATE"
              /\ OutOf("conflicts")[k].field_changes = <<>>
              /\ OutOf("conflicts")[k].id \in {needs[p[1]].id, needs[p[2]].id}
    /\ Len(OutOf("conflicts")) = Cardinality(ConflictPairs)

\* PREF_3 and DEC_4 share two topics, PREF_3 links to DEC_1, DEC_4 does not
C18_Witness ==
  /\ plans["conflicts"].ran
  /\ Len(needs) = 3
  /\ needs[1].id = DEC_1 /\ needs[2].id = PREF_3 /\ needs[3].id = DEC_4
  /\ Cardinality(TopicsOfEntity(needs[2]) \cap TopicsOfEntity(needs[3])) = 2
  /\ LinksTo(needs[2], needs[1])
  /\ ConflictPairs = {<<1, 3>>, <<2, 3>>}
  /\ Len(OutOf("conflicts")) = 2

\* the exact forms, among the non-deprecated entities, of the tags equal to t
\* up to case
FormsOf(t) ==
  {f \in UNION {TagSet(needs[k]) : k \in ActiveIdx} : LowerTag(f) = LowerTag(t)}

\* the RETAG actions detect_tag_normalization returned for entity e and form f
RetagsFor(e, f) ==
  {k \in 1..Len(OutOf("tag_normalize")) :
     /\ OutOf("tag_normalize")[k].id = needs[e].id
     /\ OutOf("tag_normalize")[k].remove_tags = <<f>>}

\* C19: for every group of tags equal up to case with more than one exact
\* form among the non-deprecated entities, the canonical form has maximal
\* usage in the group and there is exactly one RETAG (remove the form, add the
\* canonical one) per entity and non-canonical form it carries; no action for
\* canonical forms or for tags with a single form.
C19_NormalizesToMostUsed ==
  plans["tag_normalize"].ran =>
    /\ \A k \in 1..Len(OutOf("tag_normalize")) :
         LET act == OutOf("tag_normalize")[k] IN
         /\ act.kind = "RETAG"
         /\ Len(act.remove_tags) = 1 /\ Len(act.add_tags) = 1
         /\ \E e \in ActiveIdx : needs[e].id = act.id /\ act.remove_tags[1] \in TagSet(needs[e])
    /\ \A e \in ActiveIdx : \A t \in TagSet(needs[e]) :
         IF Cardinality(FormsOf(t)) <= 1
         THEN RetagsFor(e, t) = {}
         ELSE \E c \in FormsOf(t) :
                /\ \A f \in FormsOf(t) : CarriedBy(f) <= CarriedBy(c)
                /\ \A e2 \in ActiveIdx : \A f \in FormsOf(t) \cap TagSet(needs[e2]) :
                     /\ Cardinality(RetagsFor(e2, f)) = IF f = c THEN 0 ELSE 1
                     /\ \A k \in RetagsFor(e2, f) :
                          OutOf("tag_normalize")[k].add_tags = <<c>>

C19_Witness ==
  /\ plans["tag_normalize"].ran
  /\ Len(needs) = 3
  /\ needs[1].id = DEC_4 /\ needs[2].id = PREF_3 /\ needs[3].id = DEC_1
  /\ CarriedBy("topic:a") = 3 /\ CarriedBy("topic:A") = 2
  /\ Len(OutOf("tag_normalize")) = 2
  /\ RetagsFor(1, "topic:A") # {} /\ RetagsFor(2, "topic:A") # {}
  /\ RetagsFor(3, "topic:a") = {} /\ RetagsFor(3, "repo:a") = {}

\* the positions of the trace at which the collaborator what was invoked
EventsOf(what) == {k \in 1..Len(trace) : trace[k].ev = what}

\* C20: the stash push happens before the first action is applied; if it
\* created a stash, exactly one of stash pop (the rebuild failed) and stash
\* drop (the rebuild succeeded or was skipped) is executed before execute_plan
\* returns; if it created no stash, neither is executed.
C20_StashLifecycle ==
  /\ \A k \in EventsOf("execute") : \E m \in EventsOf("stash_push") : m < k
  /\ Cardinality(EventsOf("stash_push")) <= 1
  /\ Cardinality(EventsOf("stash_pop")) + Cardinality(EventsOf("stash_drop")) <= 1
  /\ \A k \in EventsOf("stash_pop") \cup EventsOf("stash_drop") :
       stashed /\ \A m \in EventsOf("execute") \cup EventsOf("stash_push") : m < k
  /\ (pc = "done" /\ stashed) =>
       /\ Cardinality(EventsOf("stash_pop")) + Cardinality(EventsOf("stash_drop")) = 1
       /\ EventsOf("stash_pop") # {} <=> ~build_ok
  /\ (pc = "done" /\ ~stashed) =>
       EventsOf("stash_pop") = {} /\ EventsOf("stash_drop") = {}

C20_Witness ==
  /\ pc = "done"
  /\ stashed
  /\ i > 2
  /\ applied # <<>> /\ failed # <<>>
  /\ build_ok
  /\ trace[1].ev = "stash_push"
  /\ Cardinality(EventsOf("stash_drop")) = 1
  /\ EventsOf("stash_pop") = {}

DirsOf(ls) == {k \in 1..Len(ls) : ls[k].k = "dir"}

\* the last line of the option block that starts after line k
RECURSIVE BlockEnd(_, _)
BlockEnd(ls, k) ==
  IF k + 1 <= Len(ls) /\ IsMetaLine(ls[k + 1]) THEN BlockEnd(ls, k + 1) ELSE k

OptionsOf(ls, d) == (d + 1)..BlockEnd(ls, d)

\* the entities of a store by their place: <<file, directive line>>
Records(store) == UNION {{<<t, d>> : d \in DirsOf(store[t])} : t \in Types}

\* the id of the entity at rec, <<>> when it has no :id: line
IdAt(store, rec) ==
  LET ls == store[rec[1]]
      at == {k \in OptionsOf(ls, rec[2]) : ls[k].k = "id"}
  IN IF at = {} THEN <<>> ELSE ls[CHOOSE k \in at : \A m \in at : k <= m].val

\* the value of an option of the entity at rec, <<>> when it has none
FieldAt(store, rec, name) ==
  LET ls == store[rec[1]]
      at == {k \in OptionsOf(ls, rec[2]) : HasField(ls[k], name)}
  IN IF at = {} THEN <<>> ELSE ls[CHOOSE k \in at : \A m \in at : k <= m].val

\* the entities whose id is exactly id
WithId(store, id) == {rec \in Records(store) : IdAt(store, rec) = id}

\* the for loop is about to execute an action of the given kind
Executing(kind) ==
  /\ pc = "loop"
  /\ i <= Len(valid)
  /\ actions[valid[i]].kind = kind

\* C22: a SUPERSEDE sets the status of old_id to deprecated; if the
\* deprecation fails the action is recorded as failed and no replacement is
\* created; if it succeeds and new_type and new_title are both non-empty,
\* exactly one new entity is appended, with a supersedes link to old_id; if it
\* succeeds and one of them is empty, no entity is created.
C22_Supersede ==
  [][ (Executing("SUPERSEDE") /\ i' = i + 1) =>
      LET a == actions[valid[i]]
          found == WithId(wt, a.old_id) # {}
          oserror == trace'[Len(trace')].exc = "OSError"
          created == Records(wt') \ Records(wt)
      IN /\ (~found \/ oserror) =>
              /\ Len(failed') = Len(failed) + 1
              /\ applied' = applied
              /\ created = {}
         /\ (found /\ ~oserror) =>
              /\ \E rec \in WithId(wt, a.old_id) :
                   FieldAt(wt', rec, "status") = <<"deprecated">>
              /\ (a.new_type # "" /\ a.new_title # <<>>) =>
                   /\ Cardinality(created) = 1
                   /\ \A rec \in created :
                        FieldAt(wt', rec, "supersedes") = <<a.old_id>>
              /\ (a.new_type = "" \/ a.new_title = <<>>) => created = {}
    ]_vars

\* ------------------------------------- execute_plan on stores with gaps
DEC_c == <<"DEC", "_", "c">>
MEM_q == <<"MEM", "_", "q">>

\* a store in which an entity without tags is stored right before one with
\* tags (dec), and an entity with several tags before one without (mem)
StoreTags ==
  LET s0 == [t \in Types |-> FileHeader]
      s1 == append_to_rst(s0, "mem",
              generate_rst_directive("mem", <<"A">>, MEM_a,
                                     <<"t0", "t1", "t2">>, <<>>)).store
      s2 == append_to_rst(s1, "mem",
              generate_rst_directive("mem", <<"z">>, MEM_z, <<>>, <<>>)).store
      s3 == append_to_rst(s2, "dec",
              generate_rst_directive("dec", <<"B">>, DEC_b, <<>>, <<>>)).store
  IN append_to_rst(s3, "dec",
       generate_rst_directive("dec", <<"C">>, DEC_c, <<"t0">>, <<>>)).store

ExecStores == {Store0, StoreTags}

ExecPool ==
  { [Action("RETAG") EXCEPT !.id = MEM_a, !.remove_tags = <<"t1">>,
                            !.add_tags = <<"t3", "t0">>],
    [Action("RETAG") EXCEPT !.id = MEM_a, !.add_tags = <<"t0">>],
    [Action("RETAG") EXCEPT !.id = MEM_z, !.add_tags = <<"t1">>],
    [Action("RETAG") EXCEPT !.id = MEM_z, !.remove_tags = <<"t0">>,
                            !.add_tags = <<"t1">>],
    [Action("RETAG") EXCEPT !.id = DEC_b, !.add_tags = <<"t1">>],
    [Action("RETAG") EXCEPT !.id = DEC_b, !.remove_tags = <<"t0">>],
    [Action("RETAG") EXCEPT !.id = MEM_a],
    [Action("RETAG") EXCEPT !.id = MEM_q],
    [Action("UPDATE") EXCEPT !.id = MEM_a],
    [Action("UPDATE") EXCEPT !.id = MEM_q],
    [Action("UPDATE") EXCEPT !.id = MEM_a,
                             !.field_changes = <<<<"status", "review">>,
                                                 <<"expires_at", "d">>>>],
    [Action("UPDATE") EXCEPT !.id = MEM_q,
                             !.field_changes = <<<<"status", "review">>>>],
    [Action("SUPERSEDE") EXCEPT !.old_id = DEC_b, !.new_type = "bogus",
                                !.new_title = <<"b">>],
    [Action("SPLIT_FILE") EXCEPT !.rst_path = "p"] }

ExecPlans == {<<a>> : a \in ExecPool}

InitExec ==
  /\ wt \in ExecStores
  /\ head = wt
  /\ actions = <<>>
  /\ Locals0
  /\ NoPlanner

\* one call of execute_plan with a plan of one action
CallExec ==
  /\ pc = "idle"
  /\ calls = 0
  /\ \E batch \in ExecPlans, ac \in BOOLEAN, rb \in BOOLEAN, git_ok \in BOOLEAN :
       Call(batch, ac, rb, git_ok)

NextExec == CallExec \/ Step \/ End

SpecExec == InitExec /\ [][NextExec]_vars

\* the tags of the entity at rec
TagsAt(store, rec) == FieldAt(store, rec, "tags")

NoRepeat(q) == Cardinality(Range(q)) = Len(q)

\* the action under execution was recorded as applied by this step
RecordedApplied == Len(applied') = Len(applied) + 1

\* C23: a RETAG of an existing entity whose sub-operations all succeed leaves
\* the entity with the tags (old tags minus remove_tags) union add_tags, each
\* once, the remaining old tags in their old order; it is recorded as applied
\* only if every specified sub-operation returned ok.
C23_Retag ==
  [][ (Executing("RETAG") /\ i' = i + 1) =>
      LET a == actions[valid[i]]
          rm == remove_tags_in_rst(wt, a.id, a.remove_tags)
          ad == add_tags_in_rst(IF a.remove_tags # <<>> THEN rm.store ELSE wt,
                                a.id, a.add_tags)
      IN /\ RecordedApplied =>
              /\ a.remove_tags # <<>> => rm.ok
              /\ a.add_tags # <<>> => ad.ok
         /\ RecordedApplied =>
              \A rec \in WithId(wt, a.id) :
                LET old == TagsAt(wt, rec)
                    new == TagsAt(wt', rec)
                    kept == Without(old, a.remove_tags)
                IN /\ Range(new) = Range(kept) \cup Range(a.add_tags)
                   /\ NoRepeat(new)
                   /\ SelectSeq(new, LAMBDA t : Contains(kept, t)) = kept
    ]_vars

\* an action whose executor does not touch the store
NoOp(a) ==
  \/ a.kind = "UPDATE" /\ a.field_changes = <<>>
  \/ a.kind = "RETAG" /\ a.add_tags = <<>> /\ a.remove_tags = <<>>
  \/ a.kind = "SPLIT_FILE"

\* C24: an UPDATE with empty field_changes, a RETAG with empty add_tags and
\* remove_tags, and a SPLIT_FILE change nothing in the store and are recorded
\* as applied, also when the named id or file does not exist; the applied
\* action counts for triggering the rebuild and the commit.
C24_NoOpApplied ==
  (pc \in {"loop", "done", "raised"} /\ i > 1 /\ NoOp(actions[1])) =>
    /\ wt = pre
    /\ Len(applied) = 1 /\ applied[1].pos = 1
    /\ failed = <<>>
    /\ pc \in {"done", "raised"} => (rebuild <=> EventsOf("rebuild") # {})
    /\ pc = "done" => (auto_commit /\ build_ok <=> EventsOf("commit") # {})

C24_Witness ==
  /\ pc = "done"
  /\ actions = <<[Action("UPDATE") EXCEPT !.id = MEM_q]>>
  /\ WithId(pre, MEM_q) = {}
  /\ Len(applied) = 1
  /\ EventsOf("rebuild") # {} /\ EventsOf("commit") # {}

\* the store obtained from store by the first k applied actions, in order
RECURSIVE Replay(_, _)
Replay(store, k) ==
  IF k = 0 THEN store
  ELSE Executor(Replay(store, k - 1), actions[applied[k].pos], FALSE).store

\* C26: on the success path (rebuild succeeded or skipped) the store after
\* the call is the store before the call, uncommitted edits included, with
\* exactly the changes of the applied actions, whether or not a stash was
\* created.
C26_UncommittedEditsKept ==
  (pc = "done" /\ build_ok /\ valid # <<>>) => wt = Replay(pre, Len(applied))

\* the action under execution was recorded as failed by this step
RecordedFailed == Len(failed') = Len(failed) + 1

\* C27: an action that execute_plan records in failed has not changed the
\* store: every entity is as it was before that action started.
C27_FailedChangesNothing ==
  [][ (pc = "loop" /\ i <= Len(valid) /\ i' = i + 1 /\ RecordedFailed) => wt' = wt ]_vars

\* ---------------------------------------- the field mutation primitives
MaxMutations == 2

\* a store in which an entity is stored before the entity whose id is a
\* prefix of its id
StorePrefix ==
  LET s0 == [t \in Types |-> FileHeader]
      s1 == append_to_rst(s0, "mem",
              generate_rst_directive("mem", <<"a", "b">>, MEM_ab, <<"t0">>, <<>>)).store
      s2 == append_to_rst(s1, "mem",
              generate_rst_directive("mem", <<"A">>, MEM_a, <<"t1">>, <<>>)).store
  IN append_to_rst(s2, "dec",
       generate_rst_directive("dec", <<"B">>, DEC_b, <<"t0">>, <<>>)).store

RstStores == {Store0, StoreTags, StorePrefix}
RstIds == {MEM_a, MEM_ab, DEC_b, DEC_c, MEM_q}
RstFields == {"status", "expires_at"}
RstTags == {<<"t0">>, <<"t1">>}

InitRst ==
  /\ wt \in RstStores
  /\ head = wt
  /\ actions = <<>>
  /\ Locals0
  /\ NoPlanner

\* a primitive called on the store returned r
Mutated(prim, need_id, field, r) ==
  /\ pc = "idle"
  /\ calls < MaxMutations
  /\ calls' = calls + 1
  /\ pre' = wt
  /\ wt' = r.store
  /\ trace' = Append(trace, [ev |-> prim, need_id |-> need_id, field |-> field,
                             ok |-> r.ok])
  /\ UNCHANGED <<head, stash, pc, actions, auto_commit, rebuild, git_works, valid,
                 skipped, stashed, i, applied, failed, build_ok, result, planner_vars>>

UpdateField ==
  \E need_id \in RstIds, field \in RstFields :
    Mutated("update_field_in_rst", need_id, field,
            update_field_in_rst(wt, need_id, field, "v"))

Deprecate ==
  \E need_id \in RstIds :
    Mutated("deprecate_in_rst", need_id, "status", deprecate_in_rst(wt, need_id, <<>>))

AddTags ==
  \E need_id \in RstIds, tags \in RstTags :
    Mutated("add_tags_in_rst", need_id, "tags", add_tags_in_rst(wt, need_id, tags))

RemoveTags ==
  \E need_id \in RstIds, tags \in RstTags :
    Mutated("remove_tags_in_rst", need_id, "tags", remove_tags_in_rst(wt, need_id, tags))

NextRst == UpdateField \/ Deprecate \/ AddTags \/ RemoveTags

SpecRst == InitRst /\ [][NextRst]_vars

\* the entities of a file in file order: directive and option lines
DirSeq(ls) == SelectSeq([k \in 1..Len(ls) |-> k], LAMBDA k : ls[k].k = "dir")

EntityAt(ls, d) ==
  [type |-> ls[d].name, title |-> ls[d].val,
   opts |-> SubSeq(ls, d + 1, BlockEnd(ls, d))]

EntitySeq(ls) == [n \in 1..Len(DirSeq(ls)) |-> EntityAt(ls, DirSeq(ls)[n])]

IdOf(e) ==
  LET at == {k \in 1..Len(e.opts) : e.opts[k].k = "id"}
  IN IF at = {} THEN <<>> ELSE e.opts[CHOOSE k \in at : \A m \in at : k <= m].val

\* the entity without its option lines of the given name
Apart(e, field) == [e EXCEPT !.opts = SelectSeq(@, LAMBDA l : l.name # field)]

\* C30: a field mutation primitive changes only the entity whose id is
\* exactly need_id, and only the named field, also when another id has
\* need_id as a prefix and when the target lacks the field while the next
\* entity has it; when no entity has id need_id it returns ok = false and
\* changes nothing.
C30_OnlyTargetField ==
  [][ calls' = calls + 1 =>
      LET call == trace'[Len(trace')] IN
      /\ \A t \in Types :
           /\ Len(EntitySeq(wt'[t])) = Len(EntitySeq(wt[t]))
           /\ \A n \in 1..Len(EntitySeq(wt[t])) :
                LET old == EntitySeq(wt[t])[n]
                    new == EntitySeq(wt'[t])[n]
                IN IF IdOf(old) = call.need_id
                   THEN Apart(new, call.field) = Apart(old, call.field)
                   ELSE new = old
      /\ WithId(wt, call.need_id) = {} => ~call.ok /\ wt' = wt
    ]_vars

\* ------------------------------------------------ plan, then apply
MAX_ENTRIES_PER_FILE == 50

\* date.isoformat() and its inverse on the dates of the snapshots
TwoDigits(n) == IF n < 10 THEN "0" \o ToString(n) ELSE ToString(n)
DateText(d) == ToString(d[1]) \o "-" \o TwoDigits(d[2]) \o "-" \o TwoDigits(d[3])
Dates == {D05, D10, D15, D20, D25}
ParseDate(s) == CHOOSE d \in Dates : DateText(d) = s

\* the directive generate_rst_directive wrote for the entity n on the day
\* n.created_at, with n's confidence and review date
DirectiveOf(n) ==
  LET d == generate_rst_directive(n.type, n.title, n.id, n.tags, n.supersedes)
  IN [k \in 1..Len(d) |->
        IF HasField(d[k], "confidence") THEN FieldLine("confidence", <<n.confidence>>)
        ELSE IF HasField(d[k], "created_at")
             THEN FieldLine("created_at", <<DateText(n.created_at)>>)
        ELSE IF HasField(d[k], "review_after")
             THEN FieldLine("review_after", <<DateText(n.review_after)>>)
        ELSE d[k]]

\* the store whose build gives the snapshot: each entity appended in turn
RECURSIVE StoreOf(_)
StoreOf(snapshot) ==
  IF snapshot = <<>> THEN [t \in Types |-> FileHeader]
  ELSE append_to_rst(StoreOf(SubSeq(snapshot, 1, Len(snapshot) - 1)),
                     snapshot[Len(snapshot)].type,
                     DirectiveOf(snapshot[Len(snapshot)])).store

\* the first entity of the store with the given id, as the build reads it
RecordOf(store, id) ==
  LET recs == WithId(store, id)
  IN CHOOSE rec \in recs :
       \A other \in recs :
         \/ rec = other
         \/ rec[1] = "mem" /\ other[1] = "dec"
         \/ rec[1] = other[1] /\ rec[2] < other[2]

One(v) == IF v = <<>> THEN "" ELSE v[1]

\* needs.json after a build of the store: the entities of the snapshot that
\* was planned on, each with the fields the store now holds
NeedOf(store, id) ==
  LET rec == RecordOf(store, id)
      dir == store[rec[1]][rec[2]]
      review == FieldAt(store, rec, "review_after")
      expires == FieldAt(store, rec, "expires_at")
  IN [id |-> id, type |-> dir.name, title |-> dir.val,
      status |-> One(FieldAt(store, rec, "status")),
      tags |-> FieldAt(store, rec, "tags"),
      confidence |-> One(FieldAt(store, rec, "confidence")),
      created_at |-> ParseDate(One(FieldAt(store, rec, "created_at"))),
      expires_at |-> IF expires = <<>> THEN <<>> ELSE ParseDate(One(expires)),
      review_after |-> IF review = <<>> THEN <<>> ELSE ParseDate(One(review)),
      relates |-> FieldAt(store, rec, "relates"),
      supports |-> FieldAt(store, rec, "supports"),
      depends |-> FieldAt(store, rec, "depends"),
      contradicts |-> FieldAt(store, rec, "contradicts"),
      supersedes |-> FieldAt(store, rec, "supersedes")]

SnapshotOf(store, planned) == [k \in 1..Len(planned) |-> NeedOf(store, planned[k].id)]

\* detect_split_files: one SPLIT_FILE per file with more entries than the limit
detect_split_files(store) ==
  LET big == SelectSeq(TypeOrder,
                       LAMBDA t : Cardinality(DirsOf(store[t])) > MAX_ENTRIES_PER_FILE)
  IN [k \in 1..Len(big) |->
        [Action("SPLIT_FILE") EXCEPT !.reason = "too many entries", !.rst_path = big[k]]]

\* run_plan with checks = None: every detector in the order of ALL_CHECKS
run_plan(store, snapshot, day, order) ==
  detect_duplicates(snapshot) \o detect_missing_tags(snapshot)
    \o detect_stale(snapshot, day) \o detect_conflicts(snapshot)
    \o detect_tag_normalization(snapshot, order) \o detect_split_files(store)

\* the entities the planned snapshots are made of
PlannedPool ==
  { [Need(MEM_a, "mem", T_aaaba, "draft", <<"topic:a", "repo:a">>, "medium", D10)
       EXCEPT !.review_after = D15],
    [Need(MEM_ab, "mem", T_ab, "draft", <<"topic:A", "repo:a">>, "low", D15)
       EXCEPT !.review_after = D25],
    [Need(MEM_z, "mem", T_aaaba, "draft", <<"topic:a", "repo:a">>, "high", D15)
       EXCEPT !.review_after = D25],
    [Need(DEC_b, "dec", T_Aaaba, "active", <<"topic:a", "repo:a">>, "medium", D10)
       EXCEPT !.review_after = D25],
    [Need(DEC_c, "dec", T_aaaba, "active", <<"topic:a", "repo:a">>, "medium", D10)
       EXCEPT !.review_after = D25] }

PlannedSnapshots ==
  {q \in SeqsUpTo(PlannedPool, MaxNeeds) :
     \A a, b \in 1..Len(q) : a # b => q[a].id # q[b].id}

InitApply ==
  /\ needs \in PlannedSnapshots
  /\ wt = StoreOf(needs)
  /\ head = wt
  /\ actions = <<>>
  /\ Locals0
  /\ today = D20
  /\ plans = <<>>
  /\ wire = <<>>
  /\ restored = <<>>

\* the planner's run on the snapshot: its output is the plan to apply
Planned(check, out) ==
  /\ pc = "idle"
  /\ plans = <<>>
  /\ plans' = <<[check |-> check, out |-> out]>>
  /\ UNCHANGED <<head, wt, stash, pc, calls, actions, auto_commit, rebuild, git_works,
                 valid, skipped, stashed, i, applied, failed, build_ok, result, pre,
                 trace, needs, today, wire, restored>>

PlanAll == \E order \in HashOrders : Planned("all", run_plan(wt, needs, today, order))
PlanDuplicates == Planned("duplicates", detect_duplicates(needs))
PlanTagNormalization ==
  \E order \in HashOrders :
    Planned("tag_normalize", detect_tag_normalization(needs, order))

\* execute_plan on the planner's output, in a workspace where git works
CallPlanned ==
  /\ pc = "idle"
  /\ calls = 0
  /\ plans # <<>>
  /\ \E ac \in BOOLEAN, rb \in BOOLEAN : Call(plans[1].out, ac, rb, TRUE)

\* the same detector run again on the snapshot of the store after the call
PlanAgain ==
  /\ pc = "done"
  /\ Len(plans) = 1
  /\ plans[1].check # "all"
  /\ \E order \in HashOrders :
       plans' = Append(plans,
                       [check |-> plans[1].check,
                        out |-> IF plans[1].check = "duplicates"
                                THEN detect_duplicates(SnapshotOf(wt, needs))
                                ELSE detect_tag_normalization(SnapshotOf(wt, needs),
                                                              order)])
  /\ UNCHANGED <<head, wt, stash, pc, calls, actions, auto_commit, rebuild, git_works,
                 valid, skipped, stashed, i, applied, failed, build_ok, result, pre,
                 trace, needs, today, wire, restored>>

NextApply ==
  \/ PlanAll \/ PlanDuplicates \/ PlanTagNormalization
  \/ CallPlanned \/ Step \/ End \/ PlanAgain

SpecApply == InitApply /\ [][NextApply]_vars

\* the snapshot of the store a snapshot was written to is that snapshot
SnapshotFaithful == pc = "idle" => SnapshotOf(wt, needs) = needs

\* C25: after execute_plan has applied the whole output of run_plan (all
\* checks, default order) and no action failed, every entity named as old_id
\* by an applied SUPERSEDE has status deprecated in the store, also when
\* detect_stale flagged the same entity in the same plan.
C25_SupersededStayDeprecated ==
  (/\ pc = "done"
   /\ plans # <<>>
   /\ plans[1].check = "all"
   /\ failed = <<>> /\ skipped = <<>>) =>
    \A k \in 1..Len(applied) :
      LET a == actions[applied[k].pos]
      IN a.kind = "SUPERSEDE" => NeedOf(wt, a.old_id).status = "deprecated"

\* the old_id -> by_id edges of a list of actions
EdgesOf(out) ==
  {<<out[k].old_id, out[k].by_id>> : k \in {m \in 1..Len(out) : out[m].kind = "SUPERSEDE"}}

EqualScore(n1, n2) == ~ScoreGreater(n1, n2) /\ ~ScoreGreater(n2, n1)

\* C28: the list detect_duplicates returns passes validate_actions with
\* nothing skipped: its old_id -> by_id relation has no cycle and no action
\* has old_id = by_id, also when several entities are pairwise duplicates with
\* equal scores.
C28_DuplicatesPlanValid ==
  (plans # <<>> /\ plans[1].check = "duplicates") =>
    LET out == plans[1].out
        v == validate_actions(out)
    IN /\ v.skipped = <<>>
       /\ Len(v.valid) = Len(out)
       /\ \A k \in 1..Len(out) : out[k].old_id # out[k].by_id
       /\ ~HasCycle(EdgesOf(out))
       /\ (calls = 1 /\ pc # "idle") => skipped = <<>> /\ Len(valid) = Len(actions)

C28_Witness ==
  /\ plans # <<>> /\ plans[1].check = "duplicates"
  /\ calls = 1 /\ pc = "done"
  /\ Len(needs) = 3
  /\ \A a, b \in 1..3 : EqualScore(needs[a], needs[b])
  /\ Len(actions) = 3
  /\ skipped = <<>> /\ Len(applied) = 3

\* C29: plan/apply reaches a fixpoint for duplicates and for tag
\* normalization: when execute_plan has applied every action the detector
\* returned on a snapshot, with no failure, the same detector run on the
\* snapshot of the resulting store returns no action.
C29_PlanApplyFixpoint ==
  (Len(plans) = 2 /\ failed = <<>> /\ skipped = <<>>) => plans[2].out = <<>>
====
